---- MODULE Spec2Model ----
(***************************************************************************)
(* Model of the transcript/summary core of Team-Minutes-and-AI-Notes:      *)
(*   - GET /user/transcript/ensure/:meetingId/:transcriptId                *)
(*     (routes/user.js), the summarization lock on Transcript.ai;          *)
(*   - the calendar cache upsert and the sync-state coverage update.       *)
(* Every await of a handler is one step of the model, so the database      *)
(* reads and writes of concurrent requests interleave as they do in Node.  *)
(***************************************************************************)
EXTENDS Integers, Sequences, FiniteSets, TLC

\* ------------------------------------------------------------------ bounds
MaxCrashes == 1        \* process deaths in one behaviour
MaxNow == 7            \* the clock (minutes) stops here

\* ------------------------------------------------- constants of the program
QUEUE_STALE_MIN == 5   \* QUEUE_STALE_MS = 5 * 60 * 1000, in minutes

\* The requests in flight at the same time.
Callers == {"r1", "r2"}
EventIds == {"E1"}
MeetingId == "M1"
TranscriptId == "T1"
Texts == {"", "hello"}                 \* vttToText(vtt) of the fetched payload
ParticipantLists == {{}, {"a@x.com"}}  \* getEventParticipants results
MaxCalls == Cardinality(Callers) + MaxCrashes
\* The clock moves by the staleness threshold or just past it.
TickSteps == {QUEUE_STALE_MIN, QUEUE_STALE_MIN + 1}

\* Outcomes of the summarization HTTP call (openaiSummary.js 76-96).
Responses == {
    [ok |-> TRUE,  text |-> "s1"],
    [ok |-> TRUE,  text |-> "s2"],
    [ok |-> TRUE,  text |-> ""],
    [ok |-> FALSE, text |-> ""] }

NoAi == [status |-> "absent", model |-> "", summary |-> "", error |-> "",
         createdAt |-> 0, updatedAt |-> 0, lockBy |-> 0]

\* ai: { status: 'none' } plus the schema defaults (Transcript.js 24-31).
\* lockBy is a history field: the request that last set `queued`.
DefaultAi == [status |-> "none", model |-> "", summary |-> "", error |-> "",
              createdAt |-> 0, updatedAt |-> 0, lockBy |-> 0]

VARIABLES
    transcripts,   \* the Transcript collection, _id = position in the sequence
    now,           \* Date.now(), in minutes
    handler,       \* per request slot: the locals of the running ensure handler
    genCalls,      \* history: generateMeetingSummary calls so far
    calls,         \* history: requests started so far
    crashes,       \* history: process deaths so far
    recovered,     \* history, per lock: generateMeetingSummary calls made by
                   \* requests that found that lock stale
    genFailed      \* history: a generateMeetingSummary call has thrown

ensureVars == <<transcripts, now, handler, genCalls, calls, crashes, recovered,
                genFailed>>

VARIABLES
    eventCache,    \* the EventCache collection, in insertion order
    syncState,     \* the UserSyncState document of (orgId, userEmail)
    clock,         \* Date.now() of the calendar routes, in seconds
    cal,           \* per request slot: the locals of the running calendar handler
    repeated       \* history: the last bulk that completed wrote, for every
                   \* event, the values the cache already held for it

calVars == <<eventCache, syncState, clock, cal, repeated>>

VARIABLES
    fn,            \* a call of one of the helper functions: its name, its
                   \* argument, and its result once it has returned
    pool           \* a call of runWithLimit: its arguments and its runners

fnVars == <<fn, pool>>

vars == <<ensureVars, calVars, fnVars>>

\* No helper call is being looked at.
\* given is a history field: the arguments as they were passed.
NoCall == [op |-> "", arg |-> <<>>, given |-> <<>>, out |-> <<>>, done |-> FALSE]

\* runWithLimit is not running.
NoPool == [pc |-> "", items |-> 0, limit |-> 0, idx |-> 0, n |-> 0,
           runner |-> <<>>, out |-> {}, calls |-> <<>>, res |-> <<>>]

NoObs == [status |-> "absent", summary |-> ""]

\* The locals of one handler run.  pc is the await it is suspended at; the
\* fields from `won` on are history of the run, they decide nothing.
IdleHandler == [
    pc       |-> "idle",
    callId   |-> 0,       \* number of the request (1..MaxCalls)
    eventId  |-> "",      \* req.query.eventId
    docId    |-> 0,       \* doc._id, 0 = doc is null
    ai       |-> NoAi,    \* doc.ai as the handler last read it
    resp     |-> "",      \* the response sent
    obs      |-> NoObs,   \* what /transcript/saved/:id rendered of doc.ai
    won      |-> FALSE,   \* the acquire updateOne modified the document
    invoked  |-> FALSE,   \* generateMeetingSummary was called
    aiWrote  |-> FALSE,   \* an update of doc.ai was issued
    sawDone  |-> FALSE,   \* doc was read with status done and a summary
    sawError |-> FALSE,   \* doc was read with status error
    sawStale |-> 0,       \* the lock (request number) found stale, 0 = none
    dupHit   |-> FALSE ]  \* Transcript.create raised E11000

Live == {"find1", "find2", "fetch", "create", "refind", "backfill",
         "reset", "reload", "acquire", "reread", "generating"}

\* ------------------------------------------------------------ pure helpers

\* Transcript.findOne({ orgId, eventId, transcriptId }): first match or 0.
findByEvent(coll, e) ==
    LET hit == {i \in 1..Len(coll) :
                   coll[i].eventId = e /\ coll[i].transcriptId = TranscriptId}
    IN IF hit = {} THEN 0 ELSE CHOOSE i \in hit : \A j \in hit : i <= j

\* Transcript.findOne({ orgId, meetingId, transcriptId }): first match or 0.
findByMeeting(coll) ==
    LET hit == {i \in 1..Len(coll) :
                   coll[i].meetingId = MeetingId /\ coll[i].transcriptId = TranscriptId}
    IN IF hit = {} THEN 0 ELSE CHOOSE i \in hit : \A j \in hit : i <= j

\* Faulty variant of AlreadySummarized: the short-circuit never applies.
AlreadySummarized_never(ai) == FALSE

\* doc.ai?.status === 'done' && doc.ai?.summary
AlreadySummarized(ai) == ai.status = "done" /\ ai.summary # ""

\* doc.ai?.status === 'queued' && queuedAt && (now - queuedAt) > QUEUE_STALE_MS
IsStaleQueued(ai, t) ==
    ai.status = "queued" /\ ai.updatedAt # 0 /\ (t - ai.updatedAt) > QUEUE_STALE_MIN

\* The filter of the acquire updateOne.
AcquireFilter(ai) == ai.status \in {"none", "error"} \/ ai.status = "absent"

\* doc.ai?.status === 'queued' && !doc.ai?.summary
ShouldGenerate(ai) == ai.status = "queued" /\ ai.summary = ""

\* Faulty variant of generateMeetingSummary: an empty output text is
\* returned as the summary.
generateMeetingSummary_acceptsEmpty(text, apiKey, r) ==
    IF ~apiKey \/ text = "" \/ ~r.ok
    THEN [ok |-> FALSE, model |-> "", summary |-> "", error |-> "OpenAI error"]
    ELSE [ok |-> TRUE, model |-> "gpt-4o-mini", summary |-> r.text, error |-> ""]

\* generateMeetingSummary({ text, subject }): the model and summary, or the
\* message of the Error it throws.
generateMeetingSummary(text, apiKey, r) ==
    IF ~apiKey THEN [ok |-> FALSE, model |-> "", summary |-> "",
                     error |-> "OPENAI_API_KEY missing"]
    ELSE IF text = "" THEN [ok |-> FALSE, model |-> "", summary |-> "",
                            error |-> "Empty transcript text"]
    ELSE IF ~r.ok THEN [ok |-> FALSE, model |-> "", summary |-> "",
                        error |-> "OpenAI error"]
    ELSE IF r.text = "" THEN [ok |-> FALSE, model |-> "", summary |-> "",
                              error |-> "OpenAI returned empty summary text"]
    ELSE [ok |-> TRUE, model |-> "gpt-4o-mini", summary |-> r.text, error |-> ""]

\* What the handler does with a loaded doc from the done check on (927-942):
\* the next await, decided on the handler's own copy of doc.ai.
AfterChecks(ai, t) ==
    IF AlreadySummarized(ai) THEN "saved"
    ELSE IF IsStaleQueued(ai, t) THEN "reset"
    ELSE "acquire"

\* Lines 926-942 on the handler's own copy of doc: the done short-circuit
\* answers at once, a stale queued lock goes to the reset, all else to the
\* acquire.  The copy is not read again before the reread of line 956.
Checked(h, t) ==
    LET nxt == AfterChecks(h.ai, t)
    IN [h EXCEPT !.pc = nxt,
                 !.resp = IF nxt = "saved" THEN "redirect" ELSE @,
                 !.sawStale = IF nxt = "reset" THEN h.ai.lockBy ELSE @,
                 !.ai = NoAi]

\* The handler's locals once doc is loaded (lines 909-916): the participants
\* backfill is awaited first when doc.participantEmails is empty.
Loaded(h, id, d, t) ==
    LET seen == [h EXCEPT !.docId = id, !.ai = d.ai,
                          !.sawDone = (d.ai.status = "done" /\ d.ai.summary # ""),
                          !.sawError = (d.ai.status = "error")]
    IN IF d.participantEmails = {}
       THEN [seen EXCEPT !.pc = "backfill"]
       ELSE Checked(seen, t)

\* Faulty variant of DuplicateKey: the collection has no unique index.
DuplicateKey_noIndex(coll, e) == FALSE

\* Transcript.create({...}) under the unique index { orgId, eventId,
\* transcriptId } (Transcript.js 38): the collection with the document
\* inserted, or unchanged when the key exists (E11000).
DuplicateKey(coll, e) ==
    \E i \in 1..Len(coll) :
        coll[i].eventId = e /\ coll[i].transcriptId = TranscriptId

NewTranscript(e, text, parts) ==
    [eventId |-> e, meetingId |-> MeetingId, transcriptId |-> TranscriptId,
     text |-> text, participantEmails |-> parts, ai |-> DefaultAi]

\* ------------------------------------------------------------------- Init
InitEnsure ==
    /\ transcripts = <<>>
    /\ now = 1
    /\ handler = [c \in Callers |-> IdleHandler]
    /\ genCalls = 0
    /\ calls = 0
    /\ crashes = 0
    /\ recovered = [k \in 1..MaxCalls |-> 0]
    /\ genFailed = FALSE

\* ---------------------------------------------------------------- actions

\* A request arrives (lines 846-858), on a slot whose request has been
\* answered or has died.  Without an access token it is answered 401 at once.
Start(c) ==
    /\ handler[c].pc \in {"idle", "finished"}
    /\ calls < MaxCalls
    /\ calls' = calls + 1
    /\ \E e \in EventIds, token \in BOOLEAN :
          handler' = [handler EXCEPT ![c] =
              IF token
              THEN [IdleHandler EXCEPT !.pc = "find1", !.callId = calls + 1,
                                       !.eventId = e]
              ELSE [IdleHandler EXCEPT !.pc = "finished", !.callId = calls + 1,
                                       !.eventId = e, !.resp = "401"]]
    /\ UNCHANGED <<transcripts, now, genCalls, crashes, recovered, genFailed, calVars, fnVars>>

\* doc = await Transcript.findOne({ orgId, eventId, transcriptId })  (864)
FindByEvent(c) ==
    /\ handler[c].pc = "find1"
    /\ LET id == findByEvent(transcripts, handler[c].eventId)
       IN handler' = [handler EXCEPT ![c] =
              IF id = 0 THEN [@ EXCEPT !.pc = "find2"]
              ELSE Loaded(@, id, transcripts[id], now)]
    /\ UNCHANGED <<transcripts, now, genCalls, calls, crashes, recovered, genFailed, calVars, fnVars>>

\* if (!doc) doc = await Transcript.findOne({ orgId, meetingId, transcriptId })
FindByMeeting(c) ==
    /\ handler[c].pc = "find2"
    /\ LET id == findByMeeting(transcripts)
       IN handler' = [handler EXCEPT ![c] =
              IF id = 0 THEN [@ EXCEPT !.pc = "fetch"]
              ELSE Loaded(@, id, transcripts[id], now)]
    /\ UNCHANGED <<transcripts, now, genCalls, calls, crashes, recovered, genFailed, calVars, fnVars>>

\* getTranscript and getEventParticipants (869-873): Graph calls, no database
\* access.  A transport failure is thrown to the outer catch: 500.
FetchTranscript(c) ==
    /\ handler[c].pc = "fetch"
    /\ \E okFetch \in BOOLEAN :
          handler' = [handler EXCEPT ![c] =
              IF okFetch THEN [@ EXCEPT !.pc = "create"]
              ELSE [@ EXCEPT !.pc = "finished", !.resp = "500"]]
    /\ UNCHANGED <<transcripts, now, genCalls, calls, crashes, recovered, genFailed, calVars, fnVars>>

\* doc = await Transcript.create({...})  (880-901).  The fetched text and
\* participants are inputs.  On E11000 the handler goes on to re-read.
CreateTranscript(c) ==
    /\ handler[c].pc = "create"
    /\ \E text \in Texts, parts \in ParticipantLists :
          IF DuplicateKey(transcripts, handler[c].eventId)
          THEN /\ handler' = [handler EXCEPT ![c] =
                      [@ EXCEPT !.pc = "refind", !.dupHit = TRUE]]
               /\ UNCHANGED transcripts
          ELSE LET d == NewTranscript(handler[c].eventId, text, parts)
               IN /\ transcripts' = Append(transcripts, d)
                  /\ handler' = [handler EXCEPT ![c] =
                         Loaded(@, Len(transcripts) + 1, d, now)]
    /\ UNCHANGED <<now, genCalls, calls, crashes, recovered, genFailed, calVars, fnVars>>

\* After E11000 (895-898): doc = await Transcript.findOne by the new key,
\* then by the old key, then the hard guard (905-907).
RefindAfterDuplicate(c) ==
    /\ handler[c].pc = "refind"
    /\ LET byEvent == findByEvent(transcripts, handler[c].eventId)
           id == IF byEvent # 0 THEN byEvent ELSE findByMeeting(transcripts)
       IN handler' = [handler EXCEPT ![c] =
              IF id = 0 THEN [@ EXCEPT !.pc = "finished", !.resp = "500-guard"]
              ELSE Loaded(@, id, transcripts[id], now)]
    /\ UNCHANGED <<transcripts, now, genCalls, calls, crashes, recovered, genFailed, calVars, fnVars>>

\* Backfill participants if missing (909-916), then the checks of 926-942 on
\* the copy of doc read before the await.
BackfillParticipants(c) ==
    /\ handler[c].pc = "backfill"
    /\ \E okFetch \in BOOLEAN, parts \in ParticipantLists :
          IF ~okFetch
          THEN /\ handler' = [handler EXCEPT ![c] =
                      [@ EXCEPT !.pc = "finished", !.resp = "500", !.ai = NoAi]]
               /\ UNCHANGED transcripts
          ELSE /\ transcripts' =
                      IF parts = {} THEN transcripts
                      ELSE [transcripts EXCEPT
                               ![handler[c].docId].participantEmails = parts]
               /\ handler' = [handler EXCEPT ![c] = Checked(@, now)]
    /\ UNCHANGED <<now, genCalls, calls, crashes, recovered, genFailed, calVars, fnVars>>

\* Reset stale queued (936-940): an unconditional update by _id, issued on
\* the strength of the handler's own copy of doc.
StaleReset(c) ==
    /\ handler[c].pc = "reset"
    /\ transcripts' = [transcripts EXCEPT ![handler[c].docId].ai =
           [@ EXCEPT !.status = "none", !.error = "stale queued reset",
                     !.updatedAt = now, !.lockBy = 0]]
    /\ handler' = [handler EXCEPT ![c] = [@ EXCEPT !.pc = "reload", !.aiWrote = TRUE]]
    /\ UNCHANGED <<now, genCalls, calls, crashes, recovered, genFailed, calVars, fnVars>>

\* doc = await Transcript.findById(doc._id)  (941); only doc._id is used of it.
ReloadAfterReset(c) ==
    /\ handler[c].pc = "reload"
    /\ handler' = [handler EXCEPT ![c] = [@ EXCEPT !.pc = "acquire"]]
    /\ UNCHANGED <<transcripts, now, genCalls, calls, crashes, recovered, genFailed, calVars, fnVars>>

\* Acquire lock (945-954): one conditional updateOne, atomic in the database.
AcquireLock(c) ==
    /\ handler[c].pc = "acquire"
    /\ LET id == handler[c].docId
           hit == AcquireFilter(transcripts[id].ai)
       IN /\ transcripts' =
                 IF hit
                 THEN [transcripts EXCEPT ![id].ai =
                          [@ EXCEPT !.status = "queued", !.updatedAt = now,
                                    !.lockBy = handler[c].callId]]
                 ELSE transcripts
          /\ handler' = [handler EXCEPT ![c] =
                 [@ EXCEPT !.pc = "reread", !.won = hit, !.aiWrote = @ \/ hit]]
    /\ UNCHANGED <<now, genCalls, calls, crashes, recovered, genFailed, calVars, fnVars>>

\* doc = await Transcript.findById(doc._id) (956) and the test of line 959:
\* generateMeetingSummary is called, or the handler redirects (997).
RereadAndDecide(c) ==
    /\ handler[c].pc = "reread"
    /\ LET ai == transcripts[handler[c].docId].ai
           k == handler[c].sawStale
       IN IF ShouldGenerate(ai)
          THEN /\ handler' = [handler EXCEPT ![c] =
                      [@ EXCEPT !.pc = "generating", !.invoked = TRUE,
                                !.ai = [NoAi EXCEPT !.createdAt = ai.createdAt]]]
               /\ genCalls' = genCalls + 1
               /\ recovered' = IF k = 0 THEN recovered
                               ELSE [recovered EXCEPT ![k] = @ + 1]
          ELSE /\ handler' = [handler EXCEPT ![c] =
                      [@ EXCEPT !.pc = "saved", !.resp = "redirect"]]
               /\ UNCHANGED <<genCalls, recovered>>
    /\ UNCHANGED <<transcripts, now, calls, crashes, genFailed, calVars, fnVars>>

\* generateMeetingSummary settles and the handler writes done (968-980) or
\* error (984-993), both unconditional updates by _id, then redirects.
FinishGeneration(c) ==
    /\ handler[c].pc = "generating"
    /\ \E apiKey \in BOOLEAN, r \in Responses :
          LET id == handler[c].docId
              res == generateMeetingSummary(transcripts[id].text, apiKey, r)
          IN /\ transcripts' = [transcripts EXCEPT ![id].ai =
                    IF res.ok
                    THEN [@ EXCEPT !.status = "done", !.model = res.model,
                                   !.summary = res.summary, !.error = "",
                                   !.createdAt = IF handler[c].ai.createdAt # 0
                                                 THEN handler[c].ai.createdAt
                                                 ELSE now,
                                   !.updatedAt = now]
                    ELSE [@ EXCEPT !.status = "error", !.error = res.error,
                                   !.updatedAt = now]]
             /\ handler' = [handler EXCEPT ![c] =
                    [@ EXCEPT !.pc = "saved", !.resp = "redirect", !.ai = NoAi,
                              !.aiWrote = TRUE]]
             /\ genFailed' = (genFailed \/ ~res.ok)
    /\ UNCHANGED <<now, genCalls, calls, crashes, recovered, calVars, fnVars>>

\* The process dies while generateMeetingSummary is awaited (963): the lock
\* stays queued and nothing is written.
Crash(c) ==
    /\ handler[c].pc = "generating"
    /\ crashes < MaxCrashes
    /\ crashes' = crashes + 1
    /\ handler' = [handler EXCEPT ![c] = IdleHandler]
    /\ UNCHANGED <<transcripts, now, genCalls, calls, recovered, genFailed, calVars, fnVars>>

\* GET /user/transcript/saved/:id (1004-1016), the target of the redirect.
\* The ensure handler has returned: of its run only the response and what
\* the page showed are kept.
ShowSaved(c) ==
    /\ handler[c].pc = "saved"
    /\ handler' = [handler EXCEPT ![c] =
           [IdleHandler EXCEPT
               !.pc = "finished", !.resp = "redirect",
               !.obs = [status |-> transcripts[handler[c].docId].ai.status,
                        summary |-> transcripts[handler[c].docId].ai.summary]]]
    /\ UNCHANGED <<transcripts, now, genCalls, calls, crashes, recovered, genFailed, calVars, fnVars>>

\* Time passes.
Tick ==
    /\ \E d \in TickSteps : now + d <= MaxNow /\ now' = now + d
    /\ UNCHANGED <<transcripts, handler, genCalls, calls, crashes, recovered, genFailed, calVars, fnVars>>

NextEnsure ==
    \/ \E c \in Callers :
          \/ Start(c)
          \/ FindByEvent(c)
          \/ FindByMeeting(c)
          \/ FetchTranscript(c)
          \/ CreateTranscript(c)
          \/ RefindAfterDuplicate(c)
          \/ BackfillParticipants(c)
          \/ StaleReset(c)
          \/ ReloadAfterReset(c)
          \/ AcquireLock(c)
          \/ RereadAndDecide(c)
          \/ FinishGeneration(c)
          \/ Crash(c)
          \/ ShowSaved(c)
    \/ Tick

\* =====================================================================
\* The calendar routes: cache upsert and sync-state coverage
\* =====================================================================

\* ------------------------------------------------------------------ bounds
MaxDays == 1           \* days the calendar clock advances

\* ------------------------------------------------- constants of the program
RECENT_DAYS == 10
BACKFILL_DAYS == 90
BACKFILL_EVERY_HOURS == 24
MERGE_TOLERANCE_S == 60     \* 60 * 1000 ms in mergeRanges

HOUR == 60 * 60
DAY == 24 * HOUR
ClockStart == 100 * DAY + 12 * HOUR
PastDaysChoices == {1, 30}      \* req.query.pastDays
CalCallers == {"u1"}
\* The request slots of the calendar routes: a second requestSync of the same
\* user can be in flight (SpecSyncRace).
SyncRacers == CalCallers \cup {"u2"}
OrgId == "org1"
Me == "me@x.com"

\* Date helpers (80-96), local time, no daylight saving.  endOfDay is the
\* last second of the day (23:59:59.999 in the source).
startOfDay(t) == t - (t % DAY)
endOfDay(t) == startOfDay(t) + DAY - 1
addDays(t, n) == t + n * DAY

Min(a, b) == IF a <= b THEN a ELSE b
Max(a, b) == IF a >= b THEN a ELSE b

\* Values a range bound can have besides a time (seconds since the epoch):
\* null, and anything new Date() makes an Invalid Date of (undefined, 'x').
NullDate == -1
BadDate == -2

\* clampDate(d) (98-102): new Date(d), or null (BadDate here) when that is an
\* Invalid Date.  new Date(null) is the epoch.
clampDate(d) == IF d = BadDate THEN BadDate ELSE IF d = NullDate THEN 0 ELSE d

\* .map(r => ({ start: clampDate(r.start), end: clampDate(r.end) }))  (107)
RECURSIVE ClampAll(_)
ClampAll(rs) ==
    IF rs = <<>> THEN <<>>
    ELSE <<[start |-> clampDate(Head(rs).start), end |-> clampDate(Head(rs).end)]>>
             \o ClampAll(Tail(rs))

\* .filter(r => r.start && r.end && r.start <= r.end)  (108)
ValidRange(r) == r.start # BadDate /\ r.end # BadDate /\ r.start <= r.end

\* Array.prototype.sort((a, b) => a.start - b.start), stable.
RECURSIVE SortByStart(_)
SortByStart(rs) ==
    IF rs = <<>> THEN <<>>
    ELSE LET n == Len(rs)
             x == rs[n]
             front == SortByStart(SubSeq(rs, 1, n - 1))
             k == Cardinality({i \in 1..Len(front) : front[i].start <= x.start})
         IN SubSeq(front, 1, k) \o <<x>> \o SubSeq(front, k + 1, Len(front))

\* Faulty variant of MergeLoop: ranges merge only when they overlap.
RECURSIVE MergeLoop_overlapOnly(_, _)
MergeLoop_overlapOnly(out, rest) ==
    IF rest = <<>> THEN out
    ELSE LET prev == out[Len(out)]
             cur == Head(rest)
         IN IF cur.start <= prev.end
            THEN MergeLoop_overlapOnly(
                     [out EXCEPT ![Len(out)].end = Max(prev.end, cur.end)], Tail(rest))
            ELSE MergeLoop_overlapOnly(Append(out, cur), Tail(rest))

\* The merge loop of mergeRanges (113-125) over the cleaned, sorted list.
RECURSIVE MergeLoop(_, _)
MergeLoop(out, rest) ==
    IF rest = <<>> THEN out
    ELSE LET prev == out[Len(out)]
             cur == Head(rest)
         IN IF cur.start <= prev.end + MERGE_TOLERANCE_S
            THEN MergeLoop([out EXCEPT ![Len(out)].end = Max(prev.end, cur.end)],
                           Tail(rest))
            ELSE MergeLoop(Append(out, cur), Tail(rest))

\* mergeRanges(ranges) (105-126)
mergeRanges(ranges) ==
    LET clean == SortByStart(SelectSeq(ClampAll(ranges), ValidRange))
    IN IF clean = <<>> THEN <<>> ELSE MergeLoop(<<Head(clean)>>, Tail(clean))

\* ------------------------------------------------ calendar events (Graph)

CalEventIds == {"ev1", "ev2"}

\* start.dateTime of the events of the calendar.
EventStart(id) == IF id = "ev1" THEN ClockStart - 2 * HOUR
                  ELSE ClockStart - 20 * DAY

\* What Graph returns for an event at the time of a fetch: the payload can
\* change between fetches (edits), and fields can be missing ("").
Payloads == {
    [subject |-> "Standup", location |-> "Room 1", organizer |-> "Ann@X.com",
     attendees |-> <<"ann@x.com", " bob@x.com ">>, online |-> TRUE],
    [subject |-> "", location |-> "", organizer |-> "",
     attendees |-> <<"Bob@x.com", "bob@x.com">>, online |-> TRUE],
    [subject |-> "Lunch", location |-> "Cafe", organizer |-> "ann@x.com",
     attendees |-> <<>>, online |-> FALSE] }

\* What annotateEventsWithTranscripts left on a candidate: _hasTranscript
\* (missing counts as false) and _transcripts.
Annotations == {
    [has |-> FALSE, transcripts |-> <<>>],
    [has |-> TRUE,  transcripts |-> <<>>],
    [has |-> TRUE,  transcripts |-> <<[id |-> "t1", meetingId |-> "m1"]>>] }

\* String(x).toLowerCase().trim() on the addresses of the model.
LowerTrim(e) ==
    CASE e = "Ann@X.com"   -> "ann@x.com"
      [] e = " bob@x.com " -> "bob@x.com"
      [] e = "Bob@x.com"   -> "bob@x.com"
      [] OTHER             -> e

\* [...new Set(list)]: first occurrences, in order.
RECURSIVE Uniq(_)
Uniq(list) ==
    IF list = <<>> THEN <<>>
    ELSE LET front == Uniq(SubSeq(list, 1, Len(list) - 1))
             x == list[Len(list)]
         IN IF \E k \in 1..Len(front) : front[k] = x THEN front
            ELSE Append(front, x)

RECURSIVE MapLowerTrim(_)
MapLowerTrim(list) ==
    IF list = <<>> THEN <<>>
    ELSE <<LowerTrim(Head(list))>> \o MapLowerTrim(Tail(list))

NonEmpty(e) == e # ""

\* emails -> uniqEmails (166-177): organizer first, then the attendees,
\* lowercased and trimmed, empty ones dropped, duplicates dropped.
UniqEmails(ev) ==
    Uniq(SelectSeq(
        (IF ev.organizer # "" THEN <<LowerTrim(ev.organizer)>> ELSE <<>>)
            \o MapLowerTrim(SelectSeq(ev.attendees, NonEmpty)),
        NonEmpty))

\* (ev._transcripts || []).map(t => ({ meetingId, transcriptId }))
RECURSIVE TranscriptRefs(_)
TranscriptRefs(ts) ==
    IF ts = <<>> THEN <<>>
    ELSE <<[meetingId |-> Head(ts).meetingId, transcriptId |-> Head(ts).id]>>
             \o TranscriptRefs(Tail(ts))

\* Faulty variant of IsTranscriptEvent: the transcript list is not looked at.
IsTranscriptEvent_flagOnly(ev) == ev.has

\* The filter of lines 158 and 717: ev._hasTranscript && ev._transcripts?.length
IsTranscriptEvent(ev) == ev.has /\ Len(ev.transcripts) > 0

\* The document one bulk update writes (179-205, 738-761): the $set fields,
\* and createdAt, which $setOnInsert writes on insert only.
CacheDoc(orgId, userEmail, ev, t) ==
    [orgId |-> orgId, userEmail |-> userEmail, eventId |-> ev.id,
     subject |-> ev.subject, startDateTime |-> ev.start,
     endDateTime |-> ev.start + HOUR, location |-> ev.location,
     organizerEmail |-> LowerTrim(ev.organizer),
     attendeeEmails |-> UniqEmails(ev),
     hasTranscript |-> TRUE,
     transcripts |-> TranscriptRefs(ev.transcripts),
     syncedAt |-> t, createdAt |-> t]

\* The updates of one pass: one per transcript event (158-208, 717-764).
BulkOps(orgId, userEmail, annotated, t) ==
    {CacheDoc(orgId, userEmail, ev, t) : ev \in {e \in annotated : IsTranscriptEvent(e)}}

\* Faulty variant of UpsertMatch: the selector leaves the event id out of
\* account and never finds the document of the event.
UpsertMatch_noKey(d, op) == FALSE

\* bulk.find({ orgId, userEmail, eventId })
UpsertMatch(d, op) ==
    d.orgId = op.orgId /\ d.userEmail = op.userEmail /\ d.eventId = op.eventId

\* Faulty variant of ApplyUpsert: the update replaces the collection.
ApplyUpsert_replaceAll(coll, op) == <<op>>

\* Faulty variant of ApplyUpsert: the fields of the $set are written one
\* update at a time, and the subject has not been written yet.
ApplyUpsert_subjectLater(coll, op) ==
    LET hit == {k \in 1..Len(coll) : UpsertMatch(coll[k], op)}
    IN IF hit = {} THEN Append(coll, op)
       ELSE LET k == CHOOSE x \in hit : \A y \in hit : x <= y
            IN [coll EXCEPT ![k] = [op EXCEPT !.createdAt = coll[k].createdAt,
                                              !.subject = coll[k].subject]]

\* .upsert().updateOne({ $set, $setOnInsert }): the first match is
\* overwritten except for createdAt, or the document is inserted.
ApplyUpsert(coll, op) ==
    LET hit == {k \in 1..Len(coll) : UpsertMatch(coll[k], op)}
    IN IF hit = {} THEN Append(coll, op)
       ELSE LET k == CHOOSE x \in hit : \A y \in hit : x <= y
            IN [coll EXCEPT ![k] = [op EXCEPT !.createdAt = coll[k].createdAt]]

\* The annotated candidates of a fetch of [a, b]: any events of the calendar
\* that start in the range, each with a payload and, for the online ones
\* (150, 709), an annotation.
AnnotatedEvent(id, p, an) ==
    [id |-> id, subject |-> p.subject, start |-> EventStart(id),
     location |-> p.location, organizer |-> p.organizer,
     attendees |-> p.attendees, online |-> p.online,
     has |-> an.has, transcripts |-> an.transcripts]

\* ev?.isOnlineMeeting || ev?.onlineMeeting || ev?.onlineMeetingUrl  (150, 709)
IsCandidate(p) == p.online

EventChoices(id) ==
    {AnnotatedEvent(id, p, an) : p \in {q \in Payloads : IsCandidate(q)},
                                 an \in Annotations}

InRange(id, a, b) == a <= EventStart(id) /\ EventStart(id) <= b

\* All the lists annotateEventsWithTranscripts can return for a fetch of
\* [a, b], as sets (event ids are unique in a calendar view).
AnnotatedLists(a, b) ==
    LET ids == {id \in CalEventIds : InRange(id, a, b)}
        all == UNION {EventChoices(id) : id \in ids}
    IN UNION {
         {{f[id] : id \in present} :
             f \in {g \in [present -> all] : \A id \in present : g[id].id = id}} :
         present \in SUBSET ids}

\* -------------------------------------------------- requestSync: the ranges

\* Faulty variant of SyncRanges: the recency window is all that is synced.
SyncRanges_recentOnly(now0, dateNow, requestedStart, requestedEnd, from, to, lastBackfillAt, force) ==
    <<[start |-> startOfDay(addDays(now0, -(RECENT_DAYS - 1))), end |-> requestedEnd]>>

\* The candidate ranges of one requestSync (481-522).  from and to are the
\* handler's syncedFrom and syncedTo, 0 for null.
SyncRanges(now0, dateNow, requestedStart, requestedEnd, from, to, lastBackfillAt, force) ==
    LET recentStart == startOfDay(addDays(now0, -(RECENT_DAYS - 1)))
        recent == <<[start |-> recentStart, end |-> requestedEnd]>>
        left == IF requestedStart < from
                THEN <<[start |-> requestedStart, end |-> addDays(from, 1)]>>
                ELSE <<>>
        right == IF requestedEnd > to
                 THEN <<[start |-> addDays(to, -1), end |-> requestedEnd]>>
                 ELSE <<>>
        backfillDue == \/ force
                       \/ lastBackfillAt = 0
                       \/ (dateNow - lastBackfillAt) > BACKFILL_EVERY_HOURS * HOUR
        backfillStart == startOfDay(addDays(now0, -(BACKFILL_DAYS - 1)))
        backfillEnd == endOfDay(addDays(now0, -RECENT_DAYS))
        backfill == IF backfillDue /\ backfillStart < backfillEnd
                    THEN <<[start |-> backfillStart, end |-> backfillEnd]>>
                    ELSE <<>>
    IN (IF from = 0 \/ to = 0
        THEN <<[start |-> requestedStart, end |-> requestedEnd]>>
        ELSE left \o right \o recent \o backfill)
       \o (IF force THEN recent ELSE <<>>)

\* Faulty variant of NewCoverage: the requested window replaces the coverage.
NewCoverage_overwrite(from, to, requestedStart, requestedEnd) ==
    [syncedFrom |-> requestedStart, syncedTo |-> requestedEnd]

\* Faulty variant of NewCoverage: the two bounds are taken the wrong way round.
NewCoverage_inverted(from, to, requestedStart, requestedEnd) ==
    [syncedFrom |-> IF to # 0 THEN Max(to, requestedEnd) ELSE requestedEnd,
     syncedTo   |-> IF from # 0 THEN Min(from, requestedStart) ELSE requestedStart]

\* newFrom and newTo (544-545).
NewCoverage(from, to, requestedStart, requestedEnd) ==
    [syncedFrom |-> IF from # 0 THEN Min(from, requestedStart) ELSE requestedStart,
     syncedTo   |-> IF to # 0 THEN Max(to, requestedEnd) ELSE requestedEnd]

\* didBackfill (554)
DidBackfill(merged, now0) ==
    \E k \in 1..Len(merged) :
        merged[k].start <= startOfDay(addDays(now0, -(BACKFILL_DAYS - 1)))

NoSyncState == [exists |-> FALSE, syncedFrom |-> 0, syncedTo |-> 0,
                lastSyncedAt |-> 0, lastBackfillAt |-> 0]

\* UserSyncState.create({ orgId, userEmail }): the schema defaults are null.
NewSyncState == [NoSyncState EXCEPT !.exists = TRUE]

CalIdle == [
    pc |-> "idle",
    route |-> "",            \* "sync" = requestSync, "calendar" = GET /calendar
    resp |-> "",             \* the response sent
    now0 |-> 0,              \* const now = new Date()
    force |-> FALSE,         \* ?refresh=1
    token |-> FALSE,         \* an access token is present
    requestedStart |-> 0,    \* requestedStart / pastStart
    requestedEnd |-> 0,      \* requestedEnd / pastEnd
    syncedFrom |-> 0,        \* startOfDay(state.syncedFrom) or null
    syncedTo |-> 0,          \* endOfDay(state.syncedTo) or null
    merged |-> <<>>,         \* mergeRanges(ranges)
    i |-> 0,                 \* index of the range being synced
    ops |-> {},              \* the updates of the bulk being executed
    pending |-> {},          \* those not yet applied by the server
    rerun |-> FALSE,         \* history: Rerun held when the bulk was built
    skipped |-> FALSE,       \* history: a fetch of this request returned an
                             \* event annotated without a transcript
    shown |-> <<>> ]         \* prevEvents of the page rendered

\* ------------------------------------------------------ reading the cache

CACHE_LIMIT == 500     \* .limit(500) of GET /calendar
SERVE_LIMIT == 600     \* .limit(600) of requestSync

\* Faulty variant of CacheQueryMatch: the query leaves the user out.
CacheQueryMatch_anyUser(d, orgId, userEmail) == d.orgId = orgId /\ d.hasTranscript

\* EventCache.find({ orgId, userEmail: me, hasTranscript: true })
CacheQueryMatch(d, orgId, userEmail) ==
    d.orgId = orgId /\ d.userEmail = userEmail /\ d.hasTranscript

\* .sort({ startDateTime: -1 }): by start, newest first.
RECURSIVE SortByStartDesc(_)
SortByStartDesc(docs) ==
    IF docs = <<>> THEN <<>>
    ELSE LET n == Len(docs)
             x == docs[n]
             front == SortByStartDesc(SubSeq(docs, 1, n - 1))
             k == Cardinality({i \in 1..Len(front) :
                                  front[i].startDateTime >= x.startDateTime})
         IN SubSeq(front, 1, k) \o <<x>> \o SubSeq(front, k + 1, Len(front))

\* .limit(n)
Limit(docs, n) == IF Len(docs) <= n THEN docs ELSE SubSeq(docs, 1, n)

\* cachedAll (644-651, 560-567)
findCached(coll, orgId, userEmail, n) ==
    LET hit(d) == CacheQueryMatch(d, orgId, userEmail)
    IN Limit(SortByStartDesc(SelectSeq(coll, hit)), n)

\* prevEventsFromCache (653-656): Date.parse of the stored start is finite
\* (a missing start is stored as '', 0 here) and lies in the window.
prevEventsFromCache(coll, orgId, userEmail, n, pastStart, pastEnd) ==
    LET inWindow(d) == /\ d.startDateTime # 0
                       /\ d.startDateTime >= pastStart
                       /\ d.startDateTime <= pastEnd
    IN SelectSeq(findCached(coll, orgId, userEmail, n), inWindow)

\* Faulty variant of Rendered: a request that caught an error answers with
\* the error alone.
Rendered_failsOnError(h, coll, resp) ==
    [h EXCEPT !.pc = "idle",
              !.resp = IF resp = "render-error" THEN "error" ELSE resp,
              !.shown = IF resp = "render-error" THEN <<>>
                        ELSE prevEventsFromCache(coll, OrgId, Me, CACHE_LIMIT,
                                                 h.requestedStart, h.requestedEnd)]

\* The handler's record once GET /calendar has rendered the page from the
\* cache: the request and what the page showed are kept.
Rendered(h, coll, resp) ==
    [h EXCEPT !.pc = "idle", !.resp = resp,
              !.shown = prevEventsFromCache(coll, OrgId, Me, CACHE_LIMIT,
                                            h.requestedStart, h.requestedEnd)]

\* Faulty variant of RendersAtOnce: the page is never rendered before the
\* refresh.
RendersAtOnce_never(doRefresh) == FALSE

\* if (!doRefresh) return res.render(...)  (666)
RendersAtOnce(doRefresh) == ~doRefresh

\* ------------------------------------------------------------------- Init
InitCalendar ==
    /\ eventCache = <<>>
    /\ syncState = NoSyncState
    /\ clock = ClockStart
    /\ cal = [u \in SyncRacers |-> CalIdle]
    /\ repeated = FALSE

Init == InitEnsure /\ InitCalendar /\ fn = NoCall /\ pool = NoPool

\* A cache other users have written to: the event ev1 cached for another user
\* of the organization and for the same address in another organization, and
\* an event of the user that Graph returned without a start ('' is stored).
SeedEvent ==
    AnnotatedEvent("ev1", CHOOSE p \in Payloads : p.subject = "Standup",
                   CHOOSE an \in Annotations : IsTranscriptEvent(an))

SeededCache == <<
    CacheDoc(OrgId, "other@x.com", SeedEvent, ClockStart - HOUR),
    CacheDoc("org2", Me, SeedEvent, ClockStart - HOUR),
    [CacheDoc(OrgId, Me, SeedEvent, ClockStart - HOUR)
        EXCEPT !.eventId = "ev0", !.startDateTime = 0, !.endDateTime = 0] >>

InitRead ==
    /\ InitEnsure
    /\ fn = NoCall
    /\ pool = NoPool
    /\ eventCache \in {<<>>, SeededCache}
    /\ syncState = NoSyncState
    /\ clock = ClockStart
    /\ cal = [u \in SyncRacers |-> CalIdle]
    /\ repeated = FALSE

\* ---------------------------------------------------------------- actions

\* An update without the times it carries.
Untimed(op) == [op EXCEPT !.syncedAt = 0, !.createdAt = 0]

\* History: the bulk repeats an earlier run, every update of it carries the
\* values the cache already holds for its event.
Rerun(coll, ops) ==
    \A op \in ops : \E k \in 1..Len(coll) : Untimed(coll[k]) = Untimed(op)

\* History: the filter of lines 158 and 717 drops an event of the list.
Skips(annotated) == \E ev \in annotated : ~IsTranscriptEvent(ev)

\* The handler's locals once the sync state is loaded (478-524).
Planned(h, st, dateNow) ==
    LET from == IF st.syncedFrom # 0 THEN startOfDay(st.syncedFrom) ELSE 0
        to == IF st.syncedTo # 0 THEN endOfDay(st.syncedTo) ELSE 0
        merged == mergeRanges(SyncRanges(h.now0, dateNow, h.requestedStart,
                                         h.requestedEnd, from, to,
                                         st.lastBackfillAt, h.force))
    IN [h EXCEPT !.syncedFrom = from, !.syncedTo = to, !.merged = merged,
                 !.i = 1, !.pc = IF merged = <<>> THEN "update" ELSE "range"]

\* The handler's locals once the bulk of a fetch is done: requestSync goes to
\* the next merged range or to the coverage update (527-545), GET /calendar
\* redirects to the cache-only view (770).
AfterBulk(h) ==
    IF h.route = "sync"
    THEN IF h.i < Len(h.merged)
         THEN [h EXCEPT !.i = @ + 1, !.pc = "range", !.ops = {}, !.pending = {},
                        !.rerun = FALSE]
         ELSE [h EXCEPT !.pc = "update", !.ops = {}, !.pending = {},
                        !.rerun = FALSE]
    ELSE [CalIdle EXCEPT !.resp = "redirect"]

\* requestSync arrives (444-472).  Without an access token the handler throws
\* and renders the error.
SyncStartWith(u, choices) ==
    /\ cal[u].pc = "idle"
    /\ \E pastDays \in choices, force \in BOOLEAN, token \in BOOLEAN :
          cal' = [cal EXCEPT ![u] =
              IF ~token THEN [CalIdle EXCEPT !.resp = "render-error"]
              ELSE [CalIdle EXCEPT
                       !.pc = "loadState", !.route = "sync", !.now0 = clock,
                       !.force = force, !.token = TRUE,
                       !.requestedStart = startOfDay(addDays(clock, -(pastDays - 1))),
                       !.requestedEnd = endOfDay(clock)]]
    /\ UNCHANGED <<eventCache, syncState, clock, repeated, ensureVars, fnVars>>

SyncStart(u) == SyncStartWith(u, PastDaysChoices)

\* requestSync with ?pastDays= beyond the backfill sweep of 90 days.
WidePastDays == PastDaysChoices \cup {95, 99}

SyncStartWide(u) == SyncStartWith(u, WidePastDays)

\* let state = await UserSyncState.findOne({ orgId, userEmail: me })  (475)
SyncLoadState(u) ==
    /\ cal[u].pc = "loadState"
    /\ cal' = [cal EXCEPT ![u] =
           IF syncState.exists THEN Planned(@, syncState, clock)
           ELSE [@ EXCEPT !.pc = "createState"]]
    /\ UNCHANGED <<eventCache, syncState, clock, repeated, ensureVars, fnVars>>

\* if (!state) state = await UserSyncState.create({ orgId, userEmail: me })
\* (476), under the unique index of UserSyncState (E11000 is thrown).
SyncCreateState(u) ==
    /\ cal[u].pc = "createState"
    /\ IF syncState.exists
       THEN /\ cal' = [cal EXCEPT ![u] = [CalIdle EXCEPT !.resp = "render-error"]]
            /\ UNCHANGED syncState
       ELSE /\ syncState' = NewSyncState
            /\ cal' = [cal EXCEPT ![u] = Planned(@, NewSyncState, clock)]
    /\ UNCHANGED <<eventCache, clock, repeated, ensureVars, fnVars>>

\* upsertTranscriptEventsToCache for the range merged[i] (530-540, 128-208):
\* fetch, filter, annotate, and the bulk is built.  A failed Graph call is
\* thrown to the handler's catch.
SyncFetchRange(u) ==
    /\ cal[u].pc = "range"
    /\ LET r == cal[u].merged[cal[u].i]
       IN \E okFetch \in BOOLEAN, annotated \in AnnotatedLists(r.start, r.end) :
             LET ops == BulkOps(OrgId, Me, annotated, clock)
                 h == [cal[u] EXCEPT !.skipped = @ \/ Skips(annotated)]
             IN cal' = [cal EXCEPT ![u] =
                    IF ~okFetch THEN [CalIdle EXCEPT !.resp = "render-error"]
                    ELSE IF ops = {} THEN AfterBulk(h)
                    ELSE [h EXCEPT !.pc = "bulk", !.ops = ops, !.pending = ops,
                                   !.rerun = Rerun(eventCache, ops)]]
    /\ UNCHANGED <<eventCache, syncState, clock, repeated, ensureVars, fnVars>>

\* bulk.execute() (210, 766) of an unordered bulk: the server applies the
\* updates one at a time, in any order.
BulkExecuteOp(u) ==
    /\ cal[u].pc = "bulk"
    /\ \E op \in cal[u].pending :
          /\ eventCache' = ApplyUpsert(eventCache, op)
          /\ IF cal[u].pending = {op}
             THEN /\ cal' = [cal EXCEPT ![u] = AfterBulk(@)]
                  /\ repeated' = cal[u].rerun
             ELSE /\ cal' = [cal EXCEPT ![u] = [@ EXCEPT !.pending = @ \ {op}]]
                  /\ UNCHANGED <<repeated>>
    /\ UNCHANGED <<syncState, clock, ensureVars, fnVars>>

\* Update sync state coverage (543-557): updateOne by _id with values
\* computed from the state read at the start.
SyncUpdateState(u) ==
    /\ cal[u].pc = "update"
    /\ LET h == cal[u]
           cov == NewCoverage(h.syncedFrom, h.syncedTo, h.requestedStart, h.requestedEnd)
       IN syncState' = [syncState EXCEPT
              !.syncedFrom = cov.syncedFrom,
              !.syncedTo = cov.syncedTo,
              !.lastSyncedAt = clock,
              !.lastBackfillAt = IF DidBackfill(h.merged, h.now0) THEN clock ELSE @]
    /\ cal' = [cal EXCEPT ![u] = [@ EXCEPT !.pc = "serve"]]
    /\ UNCHANGED <<eventCache, clock, repeated, ensureVars, fnVars>>

\* Serve from cache (559-593): reads only, then the page is rendered.
SyncServe(u) ==
    /\ cal[u].pc = "serve"
    /\ cal' = [cal EXCEPT ![u] =
           [CalIdle EXCEPT
               !.resp = "render",
               !.shown = prevEventsFromCache(eventCache, OrgId, Me, SERVE_LIMIT,
                                             cal[u].requestedStart,
                                             cal[u].requestedEnd)]]
    /\ UNCHANGED <<eventCache, syncState, clock, repeated, ensureVars, fnVars>>

\* GET /user/calendar arrives (618-638).
CalendarStart(u) ==
    /\ cal[u].pc = "idle"
    /\ \E pastDays \in PastDaysChoices, doRefresh \in BOOLEAN, token \in BOOLEAN :
          cal' = [cal EXCEPT ![u] =
              [CalIdle EXCEPT
                  !.pc = "readCache", !.route = "calendar", !.now0 = clock,
                  !.force = doRefresh, !.token = token,
                  !.requestedStart = startOfDay(addDays(clock, -(pastDays - 1))),
                  !.requestedEnd = endOfDay(clock)]]
    /\ UNCHANGED <<eventCache, syncState, clock, repeated, ensureVars, fnVars>>

\* 0) ALWAYS read cache first (644-661), then render at once without
\* ?refresh=1 (666-678) or without a token (683-696).
CalendarReadCache(u) ==
    /\ cal[u].pc = "readCache"
    /\ cal' = [cal EXCEPT ![u] =
           IF RendersAtOnce(cal[u].force) THEN Rendered(@, eventCache, "render")
           ELSE IF ~cal[u].token THEN Rendered(@, eventCache, "render-error")
           ELSE [@ EXCEPT !.pc = "fetch"]]
    /\ UNCHANGED <<eventCache, syncState, clock, repeated, ensureVars, fnVars>>

\* Refresh (698-764): fetch, filter, annotate, and the bulk is built.  A
\* failed Graph call is thrown to the catch of line 771.
CalendarRefresh(u) ==
    /\ cal[u].pc = "fetch"
    /\ \E okFetch \in BOOLEAN,
          annotated \in AnnotatedLists(cal[u].requestedStart, cal[u].requestedEnd) :
          LET ops == BulkOps(OrgId, Me, annotated, clock)
              h == [cal[u] EXCEPT !.skipped = Skips(annotated)]
          IN cal' = [cal EXCEPT ![u] =
                 IF ~okFetch THEN [@ EXCEPT !.pc = "errorRead"]
                 ELSE IF ops = {} THEN AfterBulk(h)
                 ELSE [h EXCEPT !.pc = "bulk", !.ops = ops, !.pending = ops,
                                !.rerun = Rerun(eventCache, ops)]]
    /\ UNCHANGED <<eventCache, syncState, clock, repeated, ensureVars, fnVars>>

\* The catch of GET /calendar (771-807): reads the cache, renders the error.
CalendarErrorRender(u) ==
    /\ cal[u].pc = "errorRead"
    /\ cal' = [cal EXCEPT ![u] = Rendered(@, eventCache, "render-error")]
    /\ UNCHANGED <<eventCache, syncState, clock, repeated, ensureVars, fnVars>>

\* A day passes.
ClockTick ==
    /\ clock + DAY <= ClockStart + MaxDays * DAY
    /\ clock' = clock + DAY
    /\ UNCHANGED <<eventCache, syncState, cal, repeated, ensureVars, fnVars>>

NextSync ==
    \/ \E u \in CalCallers :
          \/ SyncStart(u)
          \/ SyncLoadState(u)
          \/ SyncCreateState(u)
          \/ SyncFetchRange(u)
          \/ BulkExecuteOp(u)
          \/ SyncUpdateState(u)
          \/ SyncServe(u)
    \/ ClockTick

\* Two requestSync of one user in flight at once, on a calendar where Graph
\* returns at most the event ev1, unchanged, on every fetch.
QuietFetch(u) ==
    /\ Cardinality(cal'[u].ops) <= 1
    /\ \A op \in cal'[u].ops : op.eventId = "ev1" /\ op.subject = "Standup"

SyncFetchQuietRange(u) == SyncFetchRange(u) /\ QuietFetch(u)

NextSyncRace ==
    \E u \in SyncRacers :
        \/ SyncStart(u)
        \/ SyncLoadState(u)
        \/ SyncCreateState(u)
        \/ SyncFetchQuietRange(u)
        \/ BulkExecuteOp(u)
        \/ SyncUpdateState(u)
        \/ SyncServe(u)

\* requestSync with any of the windows of WidePastDays, on the quiet calendar.
NextSyncWide ==
    \/ \E u \in CalCallers :
          \/ SyncStartWide(u)
          \/ SyncLoadState(u)
          \/ SyncCreateState(u)
          \/ SyncFetchQuietRange(u)
          \/ BulkExecuteOp(u)
          \/ SyncUpdateState(u)
          \/ SyncServe(u)
    \/ ClockTick

NextCalendar ==
    \/ \E u \in CalCallers :
          \/ BulkExecuteOp(u)
          \/ CalendarStart(u)
          \/ CalendarReadCache(u)
          \/ CalendarRefresh(u)
          \/ CalendarErrorRender(u)
    \/ ClockTick

\* ------------------------------------------------ mergeRanges on its own

MaxRanges == 3         \* ranges in the list given to mergeRanges

\* Range bounds: no date, null, and times 60 s, 61 s and 1 s apart.
MergeDates == {BadDate, NullDate, 20, 80, 81}

\* A = [d1, d5], B = [d4, d9], C = [d20, d25], in days.
MergeExample == << [start |-> 1 * DAY, end |-> 5 * DAY],
                   [start |-> 4 * DAY, end |-> 9 * DAY],
                   [start |-> 20 * DAY, end |-> 25 * DAY] >>

MergeInputs ==
    UNION {[1..n -> [start : MergeDates, end : MergeDates]] : n \in 0..MaxRanges}
        \cup {MergeExample}

InitMerge ==
    /\ InitEnsure
    /\ InitCalendar
    /\ pool = NoPool
    /\ fn \in {[NoCall EXCEPT !.op = "mergeRanges", !.arg = rs] : rs \in MergeInputs}

\* const merged = mergeRanges(ranges)  (524)
CallMergeRanges ==
    /\ fn.op = "mergeRanges"
    /\ ~fn.done
    /\ fn' = [fn EXCEPT !.out = mergeRanges(fn.arg), !.done = TRUE]
    /\ UNCHANGED <<ensureVars, calVars, pool>>

NextMerge == CallMergeRanges

SpecMerge == InitMerge /\ [][NextMerge]_vars

\* ------------------------------ the transcript of one calendar occurrence

MaxItems == 3          \* transcripts in the list given to the picker

HOUR_MS == 3600000     \* date-times are written in hours, toMs gives ms
NoTime == -1           \* a dateTime that is missing
BadTime == -2          \* a dateTime that Date.parse rejects
NaN == -3
Infinity == 2000000000 \* Number.POSITIVE_INFINITY

\* function toMs(dt)  (378-382)
toMs(dt) == IF dt \in {NoTime, BadTime} THEN NaN ELSE dt * HOUR_MS

\* Number.isFinite
IsFinite(x) == x # NaN /\ x # Infinity

Abs(x) == IF x < 0 THEN -x ELSE x

\* a - b of two distances: Infinity - Infinity is NaN, which sort reads as 0
DistBefore(a, b) == a # b /\ (b = Infinity \/ (a # Infinity /\ a < b))

InWindow_finiteOnly(c, windowStart, windowEnd) == IsFinite(c)

\* const inWindow = Number.isFinite(c) && c >= windowStart && c <= windowEnd
InWindow(c, windowStart, windowEnd) ==
    IsFinite(c) /\ c >= windowStart /\ c <= windowEnd

\* items.map(t => ({ t, inWindow, dist, c }))  (411-416)
Scored(items, windowStart, windowEnd, anchor) ==
    [k \in 1..Len(items) |->
        LET c == toMs(items[k].createdDateTime)
        IN [t |-> items[k],
            inWindow |-> InWindow(c, windowStart, windowEnd),
            dist |-> IF IsFinite(c) THEN Abs(c - anchor) ELSE Infinity]]

SortByDist_unsorted(xs) == xs

SortByDist_reversed(xs) == [k \in 1..Len(xs) |-> xs[Len(xs) + 1 - k]]

\* Array.prototype.sort((a, b) => a.dist - b.dist): stable
RECURSIVE SortByDist(_)
SortByDist(xs) ==
    IF xs = <<>> THEN <<>>
    ELSE LET m == CHOOSE i \in 1..Len(xs) :
                     /\ \A j \in 1..Len(xs) : ~DistBefore(xs[j].dist, xs[i].dist)
                     /\ \A j \in 1..(i - 1) : DistBefore(xs[i].dist, xs[j].dist)
         IN <<xs[m]>> \o SortByDist(SubSeq(xs, 1, m - 1) \o SubSeq(xs, m + 1, Len(xs)))

\* null
NoTranscript == [id |-> "", createdDateTime |-> NoTime]

\* toMs(b.createdDateTime) - toMs(a.createdDateTime) > 0: b goes before a.
\* A NaN difference is read by the sort as 0.
CreatedAfter(b, a) ==
    /\ IsFinite(toMs(a.createdDateTime))
    /\ IsFinite(toMs(b.createdDateTime))
    /\ toMs(b.createdDateTime) > toMs(a.createdDateTime)

\* [...items].sort((a, b) => toMs(b.createdDateTime) - toMs(a.createdDateTime))[0]
\* (399-400).  The sort is stable.  Where some createdDateTime parse and
\* others do not, the comparator is not consistent (NaN ties everything,
\* the parsed values are ordered) and the order is whatever the engine's
\* sort makes of it; where none parses, every comparison is a tie.
LatestCreated(items) ==
    IF /\ \E k \in 1..Len(items) : ~IsFinite(toMs(items[k].createdDateTime))
       /\ \E k \in 1..Len(items) : IsFinite(toMs(items[k].createdDateTime))
    THEN {items[k] : k \in 1..Len(items)}
    ELSE {items[CHOOSE i \in 1..Len(items) :
                   /\ \A j \in 1..Len(items) : ~CreatedAfter(items[j], items[i])
                   /\ \A j \in 1..(i - 1) : CreatedAfter(items[i], items[j])]}

\* function pickBestTranscriptForEvent(items, ev)  (391-421): the values
\* the call can return, one value wherever the sorts are well defined.
pickBestTranscriptForEvent(items, ev) ==
    IF items = <<>> THEN {NoTranscript}
    ELSE LET startMs == toMs(ev.start)
             endMs == toMs(ev.end)
             anchor == IF IsFinite(endMs) THEN endMs ELSE startMs
         IN IF ~IsFinite(anchor) THEN LatestCreated(items)
            ELSE LET windowStart == IF IsFinite(startMs)
                                    THEN startMs - 2 * 60 * 60 * 1000
                                    ELSE anchor - 2 * 60 * 60 * 1000
                     windowEnd == IF IsFinite(endMs)
                                  THEN endMs + 8 * 60 * 60 * 1000
                                  ELSE anchor + 8 * 60 * 60 * 1000
                     scored == Scored(items, windowStart, windowEnd, anchor)
                     inWin == SortByDist(SelectSeq(scored, LAMBDA x : x.inWindow))
                 IN IF inWin # <<>> THEN {inWin[1].t}
                    ELSE {SortByDist(scored)[1].t}

\* An occurrence from 100 h to 101 h; transcripts created 3 h and 2 h before
\* its start, and 2 h, 8 h and 9 h after its end.
PickStarts == {NoTime, 100}
PickEnds == {BadTime, 101}
PickCreated == {NoTime, 97, 98, 103, 109, 110}
PickIds == <<"t1", "t2", "t3", "t4">>

PickItems ==
    UNION {{[k \in 1..n |-> [id |-> PickIds[k], createdDateTime |-> c[k]]] :
               c \in [1..n -> PickCreated]} : n \in 0..MaxItems}

\* How the sort of the engine orders a list under a comparator that is
\* not consistent: the position (from 1, modulo the length) of the element
\* it puts first.  It is the same on every call of one process.
PickEngines == 1..MaxItems

InitPick ==
    /\ InitEnsure
    /\ InitCalendar
    /\ pool = NoPool
    /\ \E items \in PickItems, s \in PickStarts, e \in PickEnds, engine \in PickEngines :
          LET a == <<items, [start |-> s, end |-> e], engine>>
          IN fn = [NoCall EXCEPT !.op = "pickBest", !.arg = a, !.given = a]

\* The value the call returns in the process of the engine.
PickedBy(items, ev, engine) ==
    LET outcomes == pickBestTranscriptForEvent(items, ev)
    IN IF Cardinality(outcomes) = 1 THEN CHOOSE t \in outcomes : TRUE
       ELSE items[((engine - 1) % Len(items)) + 1]

ItemsAfterPick_sortedInPlace(items) ==
    [k \in 1..Len(items) |-> items[Len(items) + 1 - k]]

\* The list as the call leaves it: [...items] (400) and items.map (409)
\* build new arrays, and the sorts of lines 400, 416 and 419 order those.
ItemsAfterPick(items) == items

\* const best = pickBestTranscriptForEvent(items, ev)  (496)
CallPickBest ==
    /\ fn.op = "pickBest"
    /\ ~fn.done
    /\ fn' = [fn EXCEPT !.out = PickedBy(fn.arg[1], fn.arg[2], fn.arg[3]),
                        !.arg[1] = ItemsAfterPick(fn.arg[1]),
                        !.done = TRUE]
    /\ UNCHANGED <<ensureVars, calVars, pool>>

\* The same call once more, on the list and the event as they are now.
CallPickBestAgain ==
    /\ fn.op = "pickBest"
    /\ fn.done
    /\ fn' = [fn EXCEPT !.op = "pickBestAgain",
                        !.out = <<fn.out, PickedBy(fn.arg[1], fn.arg[2], fn.arg[3])>>,
                        !.arg[1] = ItemsAfterPick(fn.arg[1])]
    /\ UNCHANGED <<ensureVars, calVars, pool>>

NextPick == CallPickBest \/ CallPickBestAgain

SpecPick == InitPick /\ [][NextPick]_vars

\* ------------------------------------- annotateEventsWithTranscripts

MaxEvents == 3         \* events in the list given to the annotator

\* The file holds two definitions of annotateEventsWithTranscripts: 1 is the
\* one of lines 431-534, 2 the one of lines 747-826.
Definitions == {1, 2}

\* opts.maxChecks: one check, or the 60 of the route (714).
MaxChecksChoices == {1, 60}

\* CHECK_TRANSCRIPTS, the access token, DEBUG_TRANSCRIPTS.
AnnotateModes == {
    [enabled |-> FALSE, token |-> TRUE,  DEBUG |-> FALSE],
    [enabled |-> TRUE,  token |-> FALSE, DEBUG |-> FALSE],
    [enabled |-> TRUE,  token |-> TRUE,  DEBUG |-> FALSE],
    [enabled |-> TRUE,  token |-> TRUE,  DEBUG |-> TRUE] }

AnnotateIds == <<"e1", "e2", "e3", "e4">>

\* start.dateTime of an event, in hours; the event lasts one hour.
AnnotateStarts == {BadTime, 100, 200}

AnnotateEnd(start) == IF start = BadTime THEN BadTime ELSE start + 1

\* What Graph answers for an event: whether the meeting is found by its
\* join URL, by its time only, or not at all, and the transcripts of the
\* meeting, created 2 h and 9 h after the end of the event at 100 h.
GraphAnswers == {
    [meeting |-> "none",   items |-> <<>>],
    [meeting |-> "byUrl",  items |-> <<>>],
    [meeting |-> "byUrl",  items |-> <<[id |-> "t1", createdDateTime |-> 103]>>],
    [meeting |-> "byUrl",  items |-> <<[id |-> "t1", createdDateTime |-> 110],
                                       [id |-> "t2", createdDateTime |-> 103]>>],
    [meeting |-> "byTime", items |-> <<[id |-> "t1", createdDateTime |-> 103]>>] }

NoAnswer == [meeting |-> "none", items |-> <<>>]

GraphEvent(id, joinUrl, start) ==
    [id |-> id, subject |-> "Standup", location |-> "Room 1",
     organizer |-> "Ann@X.com", attendees |-> <<"ann@x.com">>,
     joinUrl |-> joinUrl, start |-> start, end |-> AnnotateEnd(start)]

\* An event and the answer of Graph for it: an event without a join URL,
\* for which Graph is not asked, or an event with one.
EventKinds ==
    {[start |-> 100, joinUrl |-> "", answer |-> NoAnswer]}
        \cup [start : AnnotateStarts, joinUrl : {"https://teams/j"},
              answer : GraphAnswers]

\* getJoinUrlFromEvent(ev)  (236-239, 599-602)
getJoinUrlFromEvent(ev) == ev.joinUrl

\* The comparator of the candidates (450-458) puts a before b: newest
\* first, events without a parseable start last.
StartBefore(a, b) ==
    LET ta == toMs(a.start)
        tb == toMs(b.start)
    IN IF ~IsFinite(tb) /\ ~IsFinite(ta) THEN FALSE
       ELSE IF ~IsFinite(tb) THEN TRUE
       ELSE IF ~IsFinite(ta) THEN FALSE
       ELSE tb - ta < 0

\* .sort(comparator) on the positions idx of events: stable
RECURSIVE SortNewestFirst(_, _)
SortNewestFirst(events, idx) ==
    IF idx = <<>> THEN <<>>
    ELSE LET m == CHOOSE p \in 1..Len(idx) :
                     /\ \A q \in 1..Len(idx) :
                           ~StartBefore(events[idx[q]], events[idx[p]])
                     /\ \A q \in 1..(p - 1) :
                           StartBefore(events[idx[p]], events[idx[q]])
         IN <<idx[m]>> \o
            SortNewestFirst(events, SubSeq(idx, 1, m - 1) \o SubSeq(idx, m + 1, Len(idx)))

RECURSIVE Positions(_, _)
Positions(events, k) ==
    IF k > Len(events) THEN <<>>
    ELSE (IF getJoinUrlFromEvent(events[k]) # "" THEN <<k>> ELSE <<>>)
             \o Positions(events, k + 1)

\* .slice(0, n)
Slice(seq, n) == SubSeq(seq, 1, Min(n, Len(seq)))

\* const candidates = working.filter(...).sort(...).slice(0, maxChecks)
\* (447-459); definition 2 does not sort (763).  The positions in
\* working of the events that are checked.
Candidates(def, events, maxChecks) ==
    LET withUrl == Positions(events, 1)
    IN Slice(IF def = 1 THEN SortNewestFirst(events, withUrl) ELSE withUrl, maxChecks)

\* findMeetingsByTime (291-299): new Date(event.start?.dateTime ||
\* Date.now()) and toISOString() outside its try; an unparseable dateTime
\* gives an Invalid Date and a RangeError.
FindByTimeThrows(ev) == ev.start = BadTime \/ ev.end = BadTime

\* The worker asks for the meetings by time when the join URL finds none.
WorkerThrows(ev, answer) == answer.meeting # "byUrl" /\ FindByTimeThrows(ev)

Caught_silent(message) == [_hasTranscript |-> FALSE]

\* catch (e) { ev._hasTranscript = false; ev._tReason = `error:${e.message}` }
Caught(message) == [_hasTranscript |-> FALSE, _tReason |-> "error:" \o message]

Negative(reason) == [_hasTranscript |-> FALSE, _tReason |-> reason]

\* { id, createdDateTime, meetingId: mtg.id }
TranscriptOf(t) == [id |-> t.id, createdDateTime |-> t.createdDateTime, meetingId |-> "m1"]

RECURSIVE MapTranscripts(_)
MapTranscripts(items) ==
    IF items = <<>> THEN <<>>
    ELSE <<TranscriptOf(Head(items))>> \o MapTranscripts(Tail(items))

\* Definition 1 stores the transcript the picker returns (496-511),
\* definition 2 stores items.map(...) (799-803).
StoredTranscripts(def, items, ev) ==
    IF def = 1
    THEN LET best == CHOOSE t \in pickBestTranscriptForEvent(items, ev) : TRUE
         IN IF best.id = "" THEN <<>> ELSE <<TranscriptOf(best)>>
    ELSE MapTranscripts(items)

\* The worker of one candidate (462-523, 762-815): the fields it sets on ev.
Worker(def, ev, answer) ==
    IF WorkerThrows(ev, answer) THEN Caught("Invalid time value")
    ELSE IF answer.meeting = "none" THEN Negative("no-meeting-match")
    ELSE IF answer.items = <<>> THEN Negative("no-transcripts")
    ELSE LET stored == StoredTranscripts(def, answer.items, ev)
         IN IF stored = <<>> THEN Negative("no-best-transcript")
            ELSE [_hasTranscript |-> TRUE, _transcripts |-> stored,
                  _tReason |-> "found"]

MarkUnchecked_skip(DEBUG) == << >>

\* for (const ev of working) if (typeof ev._hasTranscript === 'undefined')
\* { ev._hasTranscript = false; if (DEBUG) ev._tReason = 'not-checked'; }
MarkUnchecked(DEBUG) ==
    IF DEBUG THEN [_hasTranscript |-> FALSE, _tReason |-> "not-checked"]
    ELSE [_hasTranscript |-> FALSE]

\* annotateEventsWithTranscripts(accessToken, events, opts)  (431-534,
\* 747-826).  A worker writes to its own event only and Graph's answer for
\* an event does not depend on the order of the checks, so that the
\* interleaving of runWithLimit does not show in the result.
annotateEventsWithTranscripts(a) ==
    IF ~a.enabled THEN a.events
    ELSE IF ~a.token
    THEN [k \in 1..Len(a.events) |-> Negative("no-token") @@ a.events[k]]
    ELSE LET candidates == Candidates(a.def, a.events, a.maxChecks)
             checked == {candidates[c] : c \in 1..Len(candidates)}
         IN [k \in 1..Len(a.events) |->
                (IF k \in checked THEN Worker(a.def, a.events[k], a.graph[k])
                 ELSE MarkUnchecked(a.DEBUG)) @@ a.events[k]]

\* The annotated event as the cache upsert reads it: ev._hasTranscript and
\* ev._transcripts || [].
AsAnnotated(ev) ==
    [id |-> ev.id, subject |-> ev.subject, start |-> ev.start,
     location |-> ev.location, organizer |-> ev.organizer,
     attendees |-> ev.attendees, online |-> TRUE,
     has |-> ("_hasTranscript" \in DOMAIN ev) /\ ev._hasTranscript,
     transcripts |-> IF "_transcripts" \in DOMAIN ev THEN ev._transcripts ELSE <<>>]

\* for (const ev of transcriptEvents) bulk.find(...).upsert().updateOne(...);
\* await bulk.execute()  (717-767)
RECURSIVE UpsertAll(_, _, _)
UpsertAll(coll, annotated, t) ==
    IF annotated = <<>> THEN coll
    ELSE LET ev == AsAnnotated(Head(annotated))
             next == IF IsTranscriptEvent(ev)
                     THEN ApplyUpsert(coll, CacheDoc(OrgId, Me, ev, t))
                     ELSE coll
         IN UpsertAll(next, Tail(annotated), t)

AnnotateArgs(n) ==
    {[def |-> d, enabled |-> m.enabled, token |-> m.token, DEBUG |-> m.DEBUG,
      maxChecks |-> mc,
      events |-> [k \in 1..n |-> GraphEvent(AnnotateIds[k], kinds[k].joinUrl, kinds[k].start)],
      graph |-> [k \in 1..n |-> kinds[k].answer]] :
        d \in Definitions, m \in AnnotateModes, mc \in MaxChecksChoices,
        kinds \in [1..n -> EventKinds]}

InitAnnotate ==
    /\ InitEnsure
    /\ InitCalendar
    /\ pool = NoPool
    /\ \E n \in 0..MaxEvents : \E a \in AnnotateArgs(n) :
          fn = [NoCall EXCEPT !.op = "annotate", !.arg = a]

\* const annotated = await annotateEventsWithTranscripts(accessToken,
\* candidates, { maxChecks: 60, concurrency: 4 })  (712-715)
CallAnnotate ==
    /\ fn.op = "annotate"
    /\ ~fn.done
    /\ fn' = [fn EXCEPT !.out = annotateEventsWithTranscripts(fn.arg), !.done = TRUE]
    /\ UNCHANGED <<ensureVars, calVars, pool>>

\* The upsert of the annotated events into the cache (717-767).
UpsertAnnotated ==
    /\ fn.op = "annotate"
    /\ fn.done
    /\ fn' = [fn EXCEPT !.op = "upserted"]
    /\ eventCache' = UpsertAll(eventCache, fn.out, clock)
    /\ UNCHANGED <<ensureVars, syncState, clock, cal, repeated, pool>>

NextAnnotate == CallAnnotate \/ UpsertAnnotated

SpecAnnotate == InitAnnotate /\ [][NextAnnotate]_vars

\* ------------------------------------------------------- runWithLimit

MaxPoolItems == 4      \* items in the list given to runWithLimit

\* opts.concurrency: 4 is the default and what the routes pass.
LimitChoices == {0, 1, 2, 4}

RunnerCount_onePerItem(limit, length) == Max(1, length)

\* Faulty variant of Taken: every runner takes the item the index was at
\* when runWithLimit was called.
Taken_firstItem(idx, length) ==
    IF idx < length THEN [pc |-> "await", cur |-> 0]
    ELSE [pc |-> "finished", cur |-> -1]

\* const n = Math.max(1, Math.min(limit, items.length))  (214)
RunnerCount(limit, length) == Max(1, Min(limit, length))

InitPool ==
    /\ InitEnsure
    /\ InitCalendar
    /\ fn = NoCall
    /\ \E items \in 0..MaxPoolItems, limit \in LimitChoices :
          pool = [NoPool EXCEPT !.pc = "called", !.items = items, !.limit = limit,
                                !.calls = [i \in 0..(items - 1) |-> 0],
                                !.res = [i \in 0..(items - 1) |-> -1]]

\* A runner at the top of its loop (208-210) when the index is idx: it
\* takes the next item and is suspended in the call of the worker, or it
\* has finished.  cur is the position of the item, from 0.
Taken(idx, length) ==
    IF idx < length THEN [pc |-> "await", cur |-> idx]
    ELSE [pc |-> "finished", cur |-> -1]

\* History: the calls of the worker per position, after the runners in
\* started have called it.
Called(count, started) ==
    [i \in DOMAIN count |->
        count[i] + Cardinality({r \in DOMAIN started :
                                   started[r].pc = "await" /\ started[r].cur = i})]

\* await Promise.all(Array.from({ length: n }, runner))  (215): the n
\* runners are started one after the other, and each runs up to its first
\* await before the next is started.
StartRunners ==
    /\ pool.pc = "called"
    /\ LET n == RunnerCount(pool.limit, pool.items)
       IN pool' = [pool EXCEPT
                      !.pc = "running",
                      !.n = n,
                      !.runner = [r \in 1..n |-> Taken(r - 1, pool.items)],
                      !.idx = Min(n, pool.items),
                      !.calls = Called(@, [r \in 1..n |-> Taken(r - 1, pool.items)])]
    /\ UNCHANGED <<ensureVars, calVars, fn>>

\* The worker of runner r returns: out[cur] = ..., and the runner is at
\* the top of its loop again (208-211) without an await in between.  The
\* worker of the annotator catches whatever is thrown (463, 519).
WorkerReturns(r) ==
    /\ pool.pc = "running"
    /\ r \in DOMAIN pool.runner
    /\ pool.runner[r].pc = "await"
    /\ pool' = [pool EXCEPT
                   !.out = @ \cup {pool.runner[r].cur},
                   !.runner[r] = Taken(pool.idx, pool.items),
                   !.idx = IF pool.idx < pool.items THEN pool.idx + 1 ELSE pool.idx,
                   !.res[pool.runner[r].cur] = pool.runner[r].cur,
                   !.calls = Called(@, <<Taken(pool.idx, pool.items)>>)]
    /\ UNCHANGED <<ensureVars, calVars, fn>>

\* Promise.all is fulfilled when every runner has finished; return out (216).
PoolReturns ==
    /\ pool.pc = "running"
    /\ \A r \in DOMAIN pool.runner : pool.runner[r].pc = "finished"
    /\ pool' = [pool EXCEPT !.pc = "returned"]
    /\ UNCHANGED <<ensureVars, calVars, fn>>

NextPool ==
    \/ StartRunners
    \/ \E r \in 1..MaxPoolItems : WorkerReturns(r)
    \/ PoolReturns

SpecPool == InitPool /\ [][NextPool]_vars

\* Every call of the worker returns, and the continuations of the runners
\* and of Promise.all are run.
SpecPoolFair == SpecPool /\ WF_vars(NextPool)

\* ----------------------- the worker of one candidate, query by query

\* for (const b of bases) for (const root of roots) for (const f of filters)
\* (266-280): 2 bases, 2 roots, and 4 filters for each of full and base.
JoinUrlQueries == 2 * 2 * (2 * 4)

TimeQueries == 2       \* candidates of findMeetingsByTime (301-308)
TranscriptUrls == 4    \* urls of listTranscripts (329-335)

\* graphJson(accessToken, url)  (218-223): a value with an entry, a value
\* without one, or a throw (fetch rejects, !r.ok, JSON.parse fails).
GraphJsonResults == {"hit", "miss", "fail"}

ResolveStarts == {BadTime, 100}

NoQueries == [url |-> 0, time |-> 0, list |-> 0]

\* asked and threw count the graphJson calls of each helper and those of
\* them that threw.
InitResolve ==
    /\ InitEnsure
    /\ InitCalendar
    /\ pool = NoPool
    /\ \E s \in ResolveStarts :
          fn = [op |-> "worker", arg |-> GraphEvent("e1", "https://teams/j", s),
                given |-> <<>>, out |-> <<>>, done |-> FALSE,
                pc |-> "findMeetingByJoinUrl", q |-> 0, mtg |-> "",
                asked |-> NoQueries, threw |-> NoQueries]

Counted(count, helper, r) ==
    [count EXCEPT ![helper] = @ + (IF r THEN 1 ELSE 0)]

\* One graphJson of findMeetingByJoinUrl (269-277): `if (arr[0]?.id)
\* return arr[0]`, `catch (e) { // keep trying }`; `return null` (283)
\* after the last one, and the worker goes on to findMeetingsByTime (470).
AskByJoinUrl ==
    /\ fn.op = "worker" /\ fn.pc = "findMeetingByJoinUrl"
    /\ \E r \in GraphJsonResults :
          fn' = [fn EXCEPT
                   !.asked = Counted(@, "url", TRUE),
                   !.threw = Counted(@, "url", r = "fail"),
                   !.mtg = IF r = "hit" THEN "m1" ELSE @,
                   !.q = IF r = "hit" \/ fn.q + 1 = JoinUrlQueries THEN 0 ELSE @ + 1,
                   !.pc = IF r = "hit" THEN "listTranscripts"
                          ELSE IF fn.q + 1 = JoinUrlQueries THEN "findMeetingsByTime"
                          ELSE @]
    /\ UNCHANGED <<ensureVars, calVars, pool>>

\* findMeetingsByTime on an event whose start does not parse (292-299): the
\* RangeError of toISOString reaches the catch of the worker (519-522).
FindByTimeRaises ==
    /\ fn.op = "worker" /\ fn.pc = "findMeetingsByTime"
    /\ FindByTimeThrows(fn.arg)
    /\ fn' = [fn EXCEPT !.out = Caught("Invalid time value") @@ fn.arg,
                        !.done = TRUE, !.pc = "returned"]
    /\ UNCHANGED <<ensureVars, calVars, pool>>

\* One graphJson of findMeetingsByTime (310-319): `if (arr.length) return
\* arr`, the catch logs; `return []` (321) after the last one, and the
\* worker finds `!mtg?.id` (480-484).
AskByTime ==
    /\ fn.op = "worker" /\ fn.pc = "findMeetingsByTime"
    /\ ~FindByTimeThrows(fn.arg)
    /\ \E r \in GraphJsonResults :
          LET last == r # "hit" /\ fn.q + 1 = TimeQueries
          IN fn' = [fn EXCEPT
                      !.asked = Counted(@, "time", TRUE),
                      !.threw = Counted(@, "time", r = "fail"),
                      !.mtg = IF r = "hit" THEN "m1" ELSE @,
                      !.q = IF r = "hit" \/ last THEN 0 ELSE @ + 1,
                      !.pc = IF r = "hit" THEN "listTranscripts"
                             ELSE IF last THEN "returned" ELSE @,
                      !.out = IF last THEN Negative("no-meeting-match") @@ fn.arg ELSE @,
                      !.done = last]
    /\ UNCHANGED <<ensureVars, calVars, pool>>

\* One graphJson of listTranscripts (337-345): the first that does not
\* throw returns its items, with or without entries; `return { items: [],
\* status: 0, used: null }` (348) after the last throw.  Then the worker
\* (486-517).
AskTranscripts ==
    /\ fn.op = "worker" /\ fn.pc = "listTranscripts"
    /\ \E r \in GraphJsonResults :
          LET more == r = "fail" /\ fn.q + 1 < TranscriptUrls
              items == IF r = "hit" THEN <<[id |-> "t1", createdDateTime |-> 103]>>
                       ELSE <<>>
          IN fn' = [fn EXCEPT
                      !.asked = Counted(@, "list", TRUE),
                      !.threw = Counted(@, "list", r = "fail"),
                      !.q = IF more THEN @ + 1 ELSE 0,
                      !.pc = IF more THEN @ ELSE "returned",
                      !.out = IF more THEN @
                              ELSE Worker(1, fn.arg, [meeting |-> "byUrl", items |-> items])
                                       @@ fn.arg,
                      !.done = ~more]
    /\ UNCHANGED <<ensureVars, calVars, pool>>

NextResolve == AskByJoinUrl \/ FindByTimeRaises \/ AskByTime \/ AskTranscripts

SpecResolve == InitResolve /\ [][NextResolve]_vars

\* ------------------------- requestSync on a calendar with many meetings

MAXCHECKS_RECENT == 120
MAXCHECKS_OTHER == 80
FETCH_MAX == 300       \* max: 300 of getCalendarRange

\* The calendar holds count online meetings with a join URL, one a minute
\* from midnight of the first day; Graph finds no meeting for any of them.
BusyCounts == {MAXCHECKS_RECENT, MAXCHECKS_RECENT + 1}

BusyStart(k) == startOfDay(ClockStart) + k * 60

\* getCalendarRange (part_002): the events that start in [a, b], by start
\* ($orderby start/dateTime), FETCH_MAX at most.  Event k is the k-th by start.
BusyFetched(count, a, b) ==
    LET inRange == {k \in 1..count : a <= BusyStart(k) /\ BusyStart(k) <= b}
    IN {k \in inRange : Cardinality({j \in inRange : j < k}) < FETCH_MAX}

\* The candidates of annotateEventsWithTranscripts on the fetched events,
\* all with a join URL and a start that parses: definition 1 sorts by start,
\* newest first, and slices (447-459); definition 2 slices the list as
\* fetched (763).
BusyChecked(def, fetched, maxChecks) ==
    IF def = 1
    THEN {k \in fetched :
             Cardinality({j \in fetched : BusyStart(j) > BusyStart(k)}) < maxChecks}
    ELSE {k \in fetched : Cardinality({j \in fetched : j < k}) < maxChecks}

\* fn.out is history: the events a worker of the annotator has run on.
InitBusy ==
    /\ InitEnsure
    /\ InitCalendar
    /\ pool = NoPool
    /\ \E d \in Definitions, n \in BusyCounts :
          fn = [op |-> "busyCalendar", arg |-> [def |-> d, count |-> n],
                given |-> <<>>, out |-> {}, done |-> FALSE]

\* upsertTranscriptEventsToCache for the range merged[i] (526-541, 128-158)
\* on the busy calendar: fetch, filter, annotate with the budget of the
\* range (528, 538); no event is annotated with a transcript, and no bulk
\* is built (161).
SyncFetchBusyRange(u) ==
    /\ cal[u].pc = "range"
    /\ LET r == cal[u].merged[cal[u].i]
           isRecentish == r.end >= startOfDay(addDays(cal[u].now0, -(RECENT_DAYS - 1)))
           maxChecks == IF isRecentish THEN MAXCHECKS_RECENT ELSE MAXCHECKS_OTHER
           fetched == BusyFetched(fn.arg.count, r.start, r.end)
       IN \E okFetch \in BOOLEAN :
             IF okFetch
             THEN /\ cal' = [cal EXCEPT ![u] = AfterBulk(@)]
                  /\ fn' = [fn EXCEPT !.out = @ \cup BusyChecked(fn.arg.def, fetched, maxChecks)]
             ELSE /\ cal' = [cal EXCEPT ![u] = [CalIdle EXCEPT !.resp = "render-error"]]
                  /\ UNCHANGED fn
    /\ UNCHANGED <<eventCache, syncState, clock, repeated, ensureVars, pool>>

NextSyncBusy ==
    \/ \E u \in CalCallers :
          \/ SyncStart(u)
          \/ SyncLoadState(u)
          \/ SyncCreateState(u)
          \/ SyncFetchBusyRange(u)
          \/ SyncUpdateState(u)
          \/ SyncServe(u)
    \/ ClockTick

SpecSyncBusy == InitBusy /\ [][NextSyncBusy]_vars

\* ------------------ the ensure-summary route on a recurring meeting

\* ?eventId= of the request: two occurrences of one series, which share
\* MeetingId, and for both of which the calendar page links TranscriptId.
OccurrenceIds == {"E1", "E2"}

\* The requests of r1 are for the first occurrence, those of r2 for either.
OccurrencesOf(c) == IF c = "r1" THEN {"E1"} ELSE OccurrenceIds

\* A request arrives (846-858) for one of the occurrences.
StartOccurrence(c) ==
    /\ handler[c].pc \in {"idle", "finished"}
    /\ calls < MaxCalls
    /\ calls' = calls + 1
    /\ \E e \in OccurrencesOf(c), token \in BOOLEAN :
          handler' = [handler EXCEPT ![c] =
              IF token
              THEN [IdleHandler EXCEPT !.pc = "find1", !.callId = calls + 1,
                                       !.eventId = e]
              ELSE [IdleHandler EXCEPT !.pc = "finished", !.callId = calls + 1,
                                       !.eventId = e, !.resp = "401"]]
    /\ UNCHANGED <<transcripts, now, genCalls, crashes, recovered, genFailed, calVars, fnVars>>

NextOccurrences ==
    \/ \E c \in Callers :
          \/ StartOccurrence(c)
          \/ FindByEvent(c)
          \/ FindByMeeting(c)
          \/ FetchTranscript(c)
          \/ CreateTranscript(c)
          \/ RefindAfterDuplicate(c)
          \/ BackfillParticipants(c)
          \/ StaleReset(c)
          \/ ReloadAfterReset(c)
          \/ AcquireLock(c)
          \/ RereadAndDecide(c)
          \/ FinishGeneration(c)
          \/ Crash(c)
          \/ ShowSaved(c)
    \/ Tick

SpecOccurrences == Init /\ [][NextOccurrences]_vars

\* Two GET /user/calendar of one user in flight at once, each with its own
\* fetch of the calendar; the clock stands still.
NextCalendarRace ==
    \E u \in SyncRacers :
        \/ BulkExecuteOp(u)
        \/ CalendarStart(u)
        \/ CalendarReadCache(u)
        \/ CalendarRefresh(u)
        \/ CalendarErrorRender(u)

SpecCalendarRace == Init /\ [][NextCalendarRace]_vars

\* The ensure-summary route; GET /user/calendar as it is routed (618-808);
\* and its incremental-sync version, requestSync (444-614).  The two
\* versions of GET /user/calendar are never routed together, and the
\* ensure-summary route shares no state with either.
Spec == Init /\ [][NextEnsure]_vars

SpecCalendar == Init /\ [][NextCalendar]_vars

SpecSync == Init /\ [][NextSync]_vars

SpecSyncRace == Init /\ [][NextSyncRace]_vars

SpecSyncWide == Init /\ [][NextSyncWide]_vars

\* GET /user/calendar on a cache that holds documents of other users.
SpecRead == InitRead /\ [][NextCalendar]_vars

\* =====================================================================
\* Properties of the ensure-summary route (Spec)
\* =====================================================================

\* Every request of the behaviour has been answered with the redirect.
AllAnswered == \A c \in Callers : handler[c].pc = "finished" /\ handler[c].resp = "redirect"

\* C1: concurrent ensure-summary calls for one transcript invoke
\* generateMeetingSummary exactly once in total; when all of them have
\* finished the status is done and all callers saw the same summary.  Stated
\* for the runs where nothing excuses a second call: no process died, no
\* time passed (no lock is stale) and no generation failed.
C1_ExactlyOneGeneration ==
    (AllAnswered /\ calls = Cardinality(Callers) /\ crashes = 0 /\ now = 1
        /\ ~genFailed)
    => /\ genCalls = 1
       /\ \A c \in Callers : handler[c].obs.status = "done"
       /\ \A c, d \in Callers : handler[c].obs.summary = handler[d].obs.summary

\* C2: at most one request per transcript is inside the generation step, and
\* a request whose acquire did not modify the document does not call
\* generateMeetingSummary.
C2_LoserDoesNotGenerate ==
    /\ \A c \in Callers : handler[c].invoked => handler[c].won
    /\ \A c, d \in Callers :
          (handler[c].pc = "generating" /\ handler[d].pc = "generating"
             /\ handler[c].docId = handler[d].docId) => c = d

\* C3: for a lock found stale, by one request or by several that interleave,
\* a new generateMeetingSummary call is made exactly once (never twice).
C3_OneRecoveryPerStaleLock == \A k \in 1..MaxCalls : recovered[k] <= 1

\* C4: a request that reads the transcript done with a non-empty summary
\* redirects without calling generateMeetingSummary and without issuing any
\* update of the ai sub-record.
C4_DoneShortCircuit ==
    \A c \in Callers :
        handler[c].sawDone =>
            /\ ~handler[c].invoked
            /\ ~handler[c].aiWrote
            /\ ~handler[c].won
            /\ handler[c].pc \in {"backfill", "saved", "finished"}
            /\ handler[c].pc = "saved" => handler[c].resp = "redirect"

\* C4 happens: a request read the finished summary and has redirected, the
\* document still done.
C4_Witness ==
    \E c \in Callers :
        /\ handler[c].sawDone
        /\ handler[c].pc = "saved"
        /\ AlreadySummarized(transcripts[handler[c].docId].ai)

\* The status changes the state machine of the ai sub-record allows.
StatusEdges == { <<"none", "queued">>, <<"error", "queued">>,
                 <<"queued", "done">>, <<"queued", "error">>,
                 <<"queued", "none">> }

\* C5: the persisted ai.status of a transcript changes only along
\* none->queued, error->queued, queued->done, queued->error, queued->none.
C5_OnlyAllowedEdges ==
    [][\A i \in 1..Len(transcripts) :
          transcripts'[i].ai.status # transcripts[i].ai.status
              => <<transcripts[i].ai.status, transcripts'[i].ai.status>> \in StatusEdges]_vars

\* C6: after a failed generation the transcript stays summarizable: a later
\* request that reads status error and re-acquires the lock calls
\* generateMeetingSummary again, it does not leave the lock it took queued
\* over a summary that is already stored.  Stated for the runs where no time
\* passes, so that no lock is stale.
C6_RetryAfterError ==
    \A c \in Callers :
        (/\ handler[c].pc = "saved"
         /\ handler[c].sawError
         /\ handler[c].won
         /\ now = 1
         /\ transcripts[handler[c].docId].ai.status = "queued")
        => \/ handler[c].invoked
           \/ transcripts[handler[c].docId].ai.summary = ""

\* C7: there is one Transcript document per (orgId, eventId, transcriptId);
\* no request is answered by the hard guard, and a request whose create
\* raised E11000 goes on with the existing document.
C7_OneDocumentPerKey ==
    /\ \A i, j \in 1..Len(transcripts) :
          (transcripts[i].eventId = transcripts[j].eventId
             /\ transcripts[i].transcriptId = transcripts[j].transcriptId) => i = j
    /\ \A c \in Callers :
          /\ handler[c].resp # "500-guard"
          /\ (handler[c].dupHit /\ handler[c].pc \in Live \ {"refind"})
               => /\ handler[c].docId \in 1..Len(transcripts)
                  /\ transcripts[handler[c].docId].eventId = handler[c].eventId

\* C7 happens: two requests found no document, one created it, the create of
\* the other raised E11000 and it is at the acquire with the existing one.
C7_Witness ==
    /\ Len(transcripts) = 1
    /\ \E c, d \in Callers :
          /\ c # d
          /\ handler[c].dupHit /\ handler[c].pc \in {"acquire", "reread"}
          /\ handler[c].docId = 1
          /\ handler[d].docId = 1 /\ ~handler[d].dupHit

\* =====================================================================
\* Properties of the calendar routes (SpecCalendar, SpecSync)
\* =====================================================================

\* The documents of the cache an update selects.
CachedFor(coll, op) == {k \in 1..Len(coll) : UpsertMatch(coll[k], op)}

\* C8: when a bulk of the cache upsert completes, and so when it completes
\* for the second time with the same events, the cache holds exactly one
\* document per (orgId, userEmail, eventId) of the bulk, and every field of
\* it is the one the bulk wrote (createdAt, written on insert only, aside);
\* no key is ever held twice.
C8_UpsertTwice ==
    [][/\ \A i, j \in 1..Len(eventCache') :
             UpsertMatch(eventCache'[i], eventCache'[j]) => i = j
       /\ \A u \in CalCallers :
             (cal[u].pc = "bulk" /\ cal'[u].pc # "bulk") =>
                 \A op \in cal[u].ops :
                     /\ Cardinality(CachedFor(eventCache', op)) = 1
                     /\ \A k \in CachedFor(eventCache', op) :
                           /\ [eventCache'[k] EXCEPT !.createdAt = 0]
                                 = [op EXCEPT !.createdAt = 0]
                           /\ eventCache'[k].createdAt <= op.createdAt]_vars

\* C8 happens: a refresh has run again, a day later, with the events the
\* cache already held: their documents carry the time of the second run and
\* the creation time of the first.
C8_Witness ==
    /\ repeated
    /\ \A u \in CalCallers : cal[u].pc = "idle"
    /\ Len(eventCache) >= 1
    /\ \E k \in 1..Len(eventCache) :
          /\ eventCache[k].syncedAt = clock
          /\ eventCache[k].createdAt < eventCache[k].syncedAt

\* C9: every document of the cache has hasTranscript = true and at least
\* one transcript reference.
C9_OnlyTranscriptEvents ==
    \A k \in 1..Len(eventCache) :
        eventCache[k].hasTranscript /\ Len(eventCache[k].transcripts) >= 1

\* C9 happens: a sync pass fetched an event annotated without a transcript,
\* has written its bulk, and the cache holds less than the calendar.
C9_Witness ==
    \E u \in CalCallers :
        /\ cal[u].pc = "update"
        /\ cal[u].skipped
        /\ Len(eventCache) >= 1
        /\ Len(eventCache) < Cardinality(CalEventIds)
        /\ \E k \in 1..Len(eventCache) : eventCache[k].syncedAt = clock

C12_ReadPathCacheOnly ==
    [][\A u \in CalCallers :
          (cal[u].pc # "idle" /\ cal[u].route = "calendar" /\ ~cal[u].force
             /\ cal'[u] # cal[u]) =>
              /\ cal[u].pc = "readCache"
              /\ cal'[u].pc = "idle"
              /\ cal'[u].resp = "render"
              /\ eventCache' = eventCache
              /\ cal'[u].shown =
                    prevEventsFromCache(eventCache, OrgId, Me, CACHE_LIMIT,
                                        cal[u].requestedStart,
                                        cal[u].requestedEnd)]_vars

\* C12 happens: a request without the refresh flag and without an access
\* token has rendered a cached event.
C12_Witness ==
    \E u \in CalCallers :
        /\ cal[u].pc = "idle" /\ cal[u].route = "calendar"
        /\ ~cal[u].force /\ ~cal[u].token
        /\ cal[u].resp = "render"
        /\ Len(cal[u].shown) >= 1

\* C13: the events GET /calendar renders are documents of the cache stored
\* under the caller's orgId and userEmail, with hasTranscript = true and a
\* start inside the window, by start newest first.
C13_ReadOwnEventsInWindow ==
    \A u \in CalCallers :
        LET out == cal[u].shown
        IN /\ \A k \in 1..Len(out) :
                 /\ out[k].orgId = OrgId
                 /\ out[k].userEmail = Me
                 /\ out[k].hasTranscript
                 /\ out[k].startDateTime >= cal[u].requestedStart
                 /\ out[k].startDateTime <= cal[u].requestedEnd
                 /\ \E j \in 1..Len(eventCache) : eventCache[j] = out[k]
           /\ \A j, k \in 1..Len(out) :
                 j < k => out[j].startDateTime >= out[k].startDateTime

\* C13 happens: the page shows one event of the user while the cache holds
\* the same event for another user and another organization, an event of the
\* user without a start, and an older event of the user outside the window.
C13_Witness ==
    \E u \in CalCallers :
        /\ cal[u].pc = "idle" /\ cal[u].resp = "render"
        /\ Len(cal[u].shown) = 1
        /\ \E j \in 1..Len(eventCache) : eventCache[j].userEmail # Me
        /\ \E j \in 1..Len(eventCache) : eventCache[j].orgId # OrgId
        /\ \E j \in 1..Len(eventCache) :
              eventCache[j].userEmail = Me /\ eventCache[j].startDateTime = 0
        /\ \E j \in 1..Len(eventCache) :
              /\ CacheQueryMatch(eventCache[j], OrgId, Me)
              /\ eventCache[j].startDateTime # 0
              /\ eventCache[j].startDateTime < cal[u].requestedStart

\* C34: a GET /calendar with the refresh flag whose calendar fetch fails
\* has built no bulk, leaves the cache as it is in the step that fails and
\* in the step that answers, and answers by rendering the error together
\* with the cached events of the caller in the requested window.
C34_FetchFailureServesCache ==
    [][\A u \in CalCallers :
          /\ (cal[u].pc = "fetch" /\ cal'[u].pc = "errorRead") =>
                 /\ eventCache' = eventCache
                 /\ cal'[u].ops = {} /\ cal'[u].pending = {}
          /\ (cal[u].pc = "errorRead" /\ cal'[u] # cal[u]) =>
                 /\ eventCache' = eventCache
                 /\ cal'[u].pc = "idle"
                 /\ cal'[u].resp = "render-error"
                 /\ cal'[u].shown =
                       prevEventsFromCache(eventCache, OrgId, Me, CACHE_LIMIT,
                                           cal[u].requestedStart,
                                           cal[u].requestedEnd)]_vars

\* C34 happens: a refresh with a token has rendered the error and an event
\* an earlier refresh had cached.
C34_Witness ==
    \E u \in CalCallers :
        /\ cal[u].pc = "idle" /\ cal[u].route = "calendar"
        /\ cal[u].force /\ cal[u].token
        /\ cal[u].resp = "render-error"
        /\ Len(cal[u].shown) >= 1
        /\ \A k \in 1..Len(eventCache) : eventCache[k].syncedAt < cal[u].now0

\* The updates of the bulk of u that the server has applied.
Applied(u) == cal[u].ops \ cal[u].pending

\* C39: with two refreshes in flight, a step changes at most the document
\* of one key, and the document after the step carries every field of one
\* update of one of the two bulks (createdAt, written on insert only,
\* aside), whatever the other bulk wrote to the key before; a document of
\* another key is left as it was; and the page a request renders while a
\* bulk is under way shows documents as the cache holds them.
C39_WholeDocumentOfOnePass ==
    [][/\ \A k \in 1..Len(eventCache') :
             \/ k <= Len(eventCache) /\ eventCache'[k] = eventCache[k]
             \/ \E u \in SyncRacers : \E op \in cal[u].pending :
                   /\ cal[u].pc = "bulk"
                   /\ [eventCache'[k] EXCEPT !.createdAt = 0] = [op EXCEPT !.createdAt = 0]
                   /\ \A j \in 1..Len(eventCache) :
                         ~UpsertMatch(eventCache[j], op) => eventCache'[j] = eventCache[j]
       /\ \A u \in SyncRacers :
             cal'[u].shown # cal[u].shown =>
                 \A k \in 1..Len(cal'[u].shown) :
                     \E j \in 1..Len(eventCache) : cal'[u].shown[k] = eventCache[j]]_vars

\* C39 happens: both bulks hold an update of ev1 and one of ev2, with
\* different subjects for ev1; both updates of ev1 have been applied, and
\* the document of ev1 is the one of u2 while the updates of ev2 wait.
C39_Witness ==
    /\ cal["u1"].pc = "bulk" /\ cal["u2"].pc = "bulk"
    /\ \E a \in Applied("u1"), b \in Applied("u2") :
          /\ a.eventId = "ev1" /\ b.eventId = "ev1"
          /\ a.subject # b.subject
          /\ Len(eventCache) = 1
          /\ eventCache[1] = b
    /\ \E a \in cal["u1"].pending : a.eventId = "ev2"
    /\ \E b \in cal["u2"].pending : b.eventId = "ev2"

\* =====================================================================
\* Properties of mergeRanges (SpecMerge)
\* =====================================================================

\* A range with two times for bounds, the start not after the end.
IsProperRange(r) ==
    r.start \notin {NullDate, BadDate} /\ r.end \notin {NullDate, BadDate}
        /\ r.start <= r.end

Contains(o, r) == o.start <= r.start /\ r.end <= o.end

\* C14: the result of mergeRanges is sorted by start, every range of it has
\* start <= end, consecutive ranges are more than 60 s apart; two proper
\* input ranges that overlap or are at most 60 s apart lie in one range of
\* the result; [d1,d5], [d4,d9], [d20,d25] give [d1,d9], [d20,d25].
C14_MergedDisjointSorted ==
    (fn.op = "mergeRanges" /\ fn.done) =>
        LET out == fn.out
            inp == SelectSeq(fn.arg, IsProperRange)
        IN /\ \A k \in 1..Len(out) : out[k].start <= out[k].end
           /\ \A k \in 1..(Len(out) - 1) : out[k + 1].start > out[k].end + 60
           /\ \A i, j \in 1..Len(inp) :
                 (inp[i].start <= inp[j].start /\ inp[j].start <= inp[i].end + 60)
                 => \E k \in 1..Len(out) :
                       Contains(out[k], inp[i]) /\ Contains(out[k], inp[j])
           /\ fn.arg = MergeExample =>
                 out = << [start |-> 1 * DAY, end |-> 9 * DAY],
                          [start |-> 20 * DAY, end |-> 25 * DAY] >>

\* C14 happens: ranges given out of order, with an inverted one among them;
\* the two proper ones are exactly 60 s apart and are merged.
C14_Witness ==
    /\ fn.op = "mergeRanges" /\ fn.done
    /\ fn.arg = << [start |-> 80, end |-> 81], [start |-> 81, end |-> 20],
                   [start |-> 20, end |-> 20] >>
    /\ fn.out = << [start |-> 20, end |-> 81] >>

\* C15: mergeRanges ignores the ranges that are not proper; every proper
\* input range lies in exactly one range of the result, every range of the
\* result starts at the start of a proper input and ends at the end of one,
\* and nothing but proper inputs yields a result.
C15_OnlyProperRangesCount ==
    (fn.op = "mergeRanges" /\ fn.done) =>
        LET out == fn.out
            inp == SelectSeq(fn.arg, IsProperRange)
        IN /\ inp = <<>> => out = <<>>
           /\ out = mergeRanges(inp)
           /\ \A i \in 1..Len(inp) :
                 Cardinality({k \in 1..Len(out) : Contains(out[k], inp[i])}) = 1
           /\ \A k \in 1..Len(out) :
                 /\ \E i \in 1..Len(inp) : out[k].start = inp[i].start
                 /\ \E i \in 1..Len(inp) : out[k].end = inp[i].end

C24_CacheOnlyGrows ==
    [][/\ Len(eventCache') >= Len(eventCache)
       /\ \A k \in 1..Len(eventCache) :
             /\ UpsertMatch(eventCache'[k], eventCache[k])
             /\ eventCache'[k] # eventCache[k] =>
                   \E u \in CalCallers :
                       /\ cal[u].pc = "bulk"
                       /\ \E op \in cal[u].pending :
                             /\ op.hasTranscript /\ op.transcripts # <<>>
                             /\ UpsertMatch(eventCache[k], op)
                             /\ eventCache'[k] =
                                   [op EXCEPT !.createdAt = eventCache[k].createdAt]]_vars

\* C24 happens: the events ev1 and ev2 were cached on the first day; the
\* requestSync of the next day has fetched its ranges, with an event that
\* came without a transcript, and has written no document: both are as
\* they were written on the first day.
C24_Witness ==
    /\ clock = ClockStart + DAY
    /\ cal["u1"].pc = "serve" /\ cal["u1"].route = "sync"
    /\ cal["u1"].now0 = ClockStart + DAY
    /\ cal["u1"].skipped
    /\ Len(eventCache) = 2
    /\ \A k \in 1..Len(eventCache) :
          eventCache[k].syncedAt = ClockStart /\ eventCache[k].hasTranscript

\* A requestSync that has computed its merged ranges.
HasPlan(u) == cal[u].route = "sync" /\ cal[u].pc \in {"range", "bulk", "update"}

\* One of the merged ranges of the call holds [a, b].
Fetches(u, a, b) ==
    \E k \in 1..Len(cal[u].merged) :
        cal[u].merged[k].start <= a /\ b <= cal[u].merged[k].end

Wedged(i) ==
    /\ transcripts[i].text # ""
    /\ transcripts[i].ai.status # "done"
    /\ transcripts[i].ai.summary # ""
    /\ \A c \in Callers : ~(handler[c].pc = "generating" /\ handler[c].docId = i)

\* Whatever the later calls, the time that passes and the answers of the
\* summarization service, a wedged transcript stays wedged.
WedgeIsPermanent ==
    [][\A i \in 1..Len(transcripts) :
          Wedged(i) => /\ transcripts'[i].text # ""
                       /\ transcripts'[i].ai.status # "done"
                       /\ transcripts'[i].ai.summary # ""
                       /\ \A c \in Callers :
                             ~(handler'[c].pc = "generating" /\ handler'[c].docId = i)]_vars

\* C25: no transcript is wedged: from every persisted state of a
\* transcript with a text and a status other than done, later calls can
\* lead to done; that is, no such state is one that stays as it is under
\* every later call (WedgeIsPermanent).
C25_NoTranscriptWedged ==
    \A i \in 1..Len(transcripts) : ~Wedged(i)

\* C26: when the stale reset is written, the transcript is queued with an
\* updatedAt older than the staleness threshold: the write never turns a
\* fresh lock of another call, or a done status, into none.
C26_ResetOnlyHitsStaleLock ==
    [][\A c \in Callers :
          (handler[c].pc = "reset" /\ handler'[c].pc = "reload") =>
              LET ai == transcripts[handler[c].docId].ai
              IN /\ ai.status = "queued"
                 /\ ai.updatedAt # 0
                 /\ now - ai.updatedAt > QUEUE_STALE_MIN]_vars

C37_DoneHasSummary ==
    \A i \in 1..Len(transcripts) :
        transcripts[i].ai.status = "done" =>
            /\ transcripts[i].ai.summary # ""
            /\ AlreadySummarized(transcripts[i].ai)
            /\ AfterChecks(transcripts[i].ai, now) = "saved"

\* C37 happens: a generation failed, a later one wrote done with the
\* summary, and a request after that has read the document done.
C37_Witness ==
    /\ genFailed
    /\ \E i \in 1..Len(transcripts) :
          /\ transcripts[i].ai.status = "done"
          /\ transcripts[i].ai.summary = "s1"
          /\ transcripts[i].ai.error = ""
          /\ \E c \in Callers : handler[c].sawDone /\ handler[c].docId = i

\* C38: the document an ensure request for the occurrence E has loaded,
\* and redirects to, has the transcriptId of the request and the eventId E,
\* or an empty eventId.
C38_OwnOccurrenceOnly ==
    \A c \in Callers :
        handler[c].docId # 0 =>
            /\ transcripts[handler[c].docId].transcriptId = TranscriptId
            /\ transcripts[handler[c].docId].eventId \in {handler[c].eventId, ""}

\* =====================================================================
\* Properties of pickBestTranscriptForEvent (SpecPick)
\* =====================================================================

\* Created within [start - 2 h, end + 8 h] of the occurrence, in ms.
CreatedInWindow(t, ev) ==
    /\ t.createdDateTime # NoTime
    /\ t.createdDateTime * HOUR_MS >= ev.start * HOUR_MS - 7200000
    /\ t.createdDateTime * HOUR_MS <= ev.end * HOUR_MS + 28800000

\* Distance in ms between the creation of t and the end of the occurrence.
FromEnd(t, ev) == Abs(t.createdDateTime * HOUR_MS - ev.end * HOUR_MS)

ItemsOf(items) == {items[k] : k \in 1..Len(items)}

\* C16: for an occurrence with a start and an end, and a list with at
\* least one transcript created within [start - 2 h, end + 8 h], the picker
\* returns a transcript of the list created within the window, and none
\* created within the window is closer to the end of the occurrence; of
\* transcripts created at end + 2 h and end + 9 h it returns the first.
C16_ClosestInWindow ==
    (fn.op = "pickBest" /\ fn.done) =>
        LET items == ItemsOf(fn.arg[1])
            ev == fn.arg[2]
        IN (/\ ev.start \notin {NoTime, BadTime} /\ ev.end \notin {NoTime, BadTime}
            /\ \E t \in items : CreatedInWindow(t, ev))
           => /\ fn.out \in items
              /\ CreatedInWindow(fn.out, ev)
              /\ \A t \in items :
                    CreatedInWindow(t, ev) => FromEnd(fn.out, ev) <= FromEnd(t, ev)
              /\ {t.createdDateTime : t \in items} = {ev.end + 2, ev.end + 9}
                    => fn.out.createdDateTime = ev.end + 2

\* C16 happens: the transcript created 3 h before the start is closer to
\* the end than the one created 8 h after it, and the latter is returned.
C16_Witness ==
    /\ fn.op = "pickBest" /\ fn.done
    /\ fn.arg[2] = [start |-> 100, end |-> 101]
    /\ fn.arg[1] = << [id |-> "t1", createdDateTime |-> 97],
                      [id |-> "t2", createdDateTime |-> 109] >>
    /\ fn.out = [id |-> "t2", createdDateTime |-> 109]

AnchorOf(ev) == IF ev.end \notin {NoTime, BadTime} THEN ev.end * HOUR_MS ELSE ev.start * HOUR_MS

HasAnchor(ev) == ev.end \notin {NoTime, BadTime} \/ ev.start \notin {NoTime, BadTime}

\* Created within the window of the occurrence: 2 h before its start (or
\* its anchor) to 8 h after its end (or its anchor).
CreatedInAnchorWindow(t, ev) ==
    /\ t.createdDateTime # NoTime
    /\ t.createdDateTime * HOUR_MS >=
          (IF ev.start \notin {NoTime, BadTime} THEN ev.start * HOUR_MS ELSE AnchorOf(ev)) - 7200000
    /\ t.createdDateTime * HOUR_MS <=
          (IF ev.end \notin {NoTime, BadTime} THEN ev.end * HOUR_MS ELSE AnchorOf(ev)) + 28800000

\* C30: for an occurrence with an end or a start, and a list of which no
\* transcript is created within the window, the picker returns a transcript
\* of the list; when some transcript has a parseable creation time, the
\* one returned has, and none with a parseable creation time is closer to
\* the anchor.
C30_ClosestOutsideWindow ==
    (fn.op = "pickBest" /\ fn.done) =>
        LET items == ItemsOf(fn.given[1])
            ev == fn.given[2]
            dated == {t \in items : t.createdDateTime # NoTime}
        IN (/\ HasAnchor(ev)
            /\ items # {}
            /\ \A t \in items : ~CreatedInAnchorWindow(t, ev))
           => /\ fn.out \in items
              /\ dated # {} =>
                    /\ fn.out \in dated
                    /\ \A t \in dated :
                          Abs(fn.out.createdDateTime * HOUR_MS - AnchorOf(ev))
                              <= Abs(t.createdDateTime * HOUR_MS - AnchorOf(ev))

\* C30 happens: a transcript without a creation time, one created 9 h
\* after the end and one created 3 h before the start; the last is returned.
C30_Witness ==
    /\ fn.op = "pickBest" /\ fn.done
    /\ fn.given[2] = [start |-> 100, end |-> 101]
    /\ fn.given[1] = << [id |-> "t1", createdDateTime |-> NoTime],
                        [id |-> "t2", createdDateTime |-> 110],
                        [id |-> "t3", createdDateTime |-> 97] >>
    /\ fn.out = [id |-> "t3", createdDateTime |-> 97]

\* The first transcript of the list in most-recently-created-first order:
\* none of the list is known to be created after it, and among those that
\* tie with it, it is the one the list gives first.
MostRecentlyCreated(items) ==
    items[CHOOSE i \in 1..Len(items) :
             /\ \A j \in 1..Len(items) :
                   ~(/\ items[j].createdDateTime # NoTime
                     /\ items[i].createdDateTime # NoTime
                     /\ items[j].createdDateTime > items[i].createdDateTime)
             /\ \A j \in 1..(i - 1) :
                   /\ items[j].createdDateTime # NoTime
                   /\ items[i].createdDateTime # NoTime
                   /\ items[i].createdDateTime > items[j].createdDateTime]

Annotated == fn.op \in {"annotate", "upserted"} /\ fn.done

\* The entry is tagged, with true.
Tagged(ev) == "_hasTranscript" \in DOMAIN ev
Positive(ev) == Tagged(ev) /\ ev._hasTranscript

\* C17: every event the annotator marks _hasTranscript = true carries
\* exactly one transcript, whatever the number of transcripts of its
\* meeting, and once the annotated events are upserted the cache holds
\* exactly one document of the event, with hasTranscript true and exactly
\* one transcript reference.
C17_OneTranscriptPerEvent ==
    Annotated =>
        \A k \in 1..Len(fn.out) :
            Positive(fn.out[k]) =>
                /\ Len(fn.out[k]._transcripts) = 1
                /\ fn.op = "upserted" =>
                      LET docs == {d \in 1..Len(eventCache) :
                                      /\ eventCache[d].orgId = OrgId
                                      /\ eventCache[d].userEmail = Me
                                      /\ eventCache[d].eventId = fn.out[k].id}
                      IN /\ Cardinality(docs) = 1
                         /\ \A d \in docs :
                               /\ eventCache[d].hasTranscript
                               /\ Len(eventCache[d].transcripts) = 1

\* C18: with CHECK_TRANSCRIPTS on, the annotator returns one entry per
\* event given, in the order given, each with a boolean _hasTranscript and
\* otherwise the fields of the event: also for the events without a join
\* URL and for those beyond maxChecks.
C18_OneTaggedEntryPerEvent ==
    (Annotated /\ fn.arg.enabled) =>
        /\ Len(fn.out) = Len(fn.arg.events)
        /\ \A k \in 1..Len(fn.out) :
              /\ Tagged(fn.out[k])
              /\ fn.out[k]._hasTranscript \in BOOLEAN
              /\ \A f \in DOMAIN fn.arg.events[k] : fn.out[k][f] = fn.arg.events[k][f]

\* C18 happens: of three events the first has no join URL, the second is
\* beyond the one check allowed and the third, the newest, is checked and
\* has a transcript.
C18_Witness ==
    /\ fn.op = "annotate" /\ fn.done
    /\ fn.arg.enabled /\ fn.arg.token /\ fn.arg.def = 1 /\ fn.arg.maxChecks = 1
    /\ Len(fn.arg.events) = 3
    /\ fn.arg.events[1].joinUrl = ""
    /\ fn.arg.events[2].joinUrl # "" /\ fn.arg.events[2].start = 100
    /\ fn.arg.events[3].joinUrl # "" /\ fn.arg.events[3].start = 200
    /\ fn.arg.graph[2].meeting = "byUrl" /\ Len(fn.arg.graph[2].items) = 1
    /\ ~fn.out[1]._hasTranscript
    /\ ~fn.out[2]._hasTranscript
    /\ fn.out[3]._hasTranscript

\* C19: every entry the annotator returns with _hasTranscript = false
\* carries a reason string (_tReason), the events without a join URL and
\* those beyond maxChecks included.
C19_ReasonOnEveryNegative ==
    (Annotated /\ fn.arg.enabled) =>
        \A k \in 1..Len(fn.out) :
            (Tagged(fn.out[k]) /\ ~fn.out[k]._hasTranscript) =>
                /\ "_tReason" \in DOMAIN fn.out[k]
                /\ fn.out[k]._tReason # ""

\* The positions of the events whose check throws.
Throwers ==
    LET a == fn.arg
        candidates == Candidates(a.def, a.events, a.maxChecks)
    IN {k \in {candidates[c] : c \in 1..Len(candidates)} :
           WorkerThrows(a.events[k], a.graph[k])}

\* C20: when the check of a candidate throws, the pass still returns an
\* entry for every event, that candidate gets _hasTranscript = false and a
\* reason error:<message>, and every other entry is the one the pass
\* returns when Graph answers anything else for that candidate.
C20_FailureIsolated ==
    (Annotated /\ fn.arg.enabled /\ fn.arg.token) =>
        \A i \in Throwers :
            /\ Len(fn.out) = Len(fn.arg.events)
            /\ Tagged(fn.out[i]) /\ ~fn.out[i]._hasTranscript
            /\ "_tReason" \in DOMAIN fn.out[i]
            /\ fn.out[i]._tReason = "error:Invalid time value"
            /\ \A g \in GraphAnswers :
                  LET other == annotateEventsWithTranscripts(
                                   [fn.arg EXCEPT !.graph[i] = g])
                  IN \A j \in 1..Len(fn.out) : j # i => other[j] = fn.out[j]

\* C20 happens: the check of the second of three candidates throws, the
\* first has a transcript and the third has no meeting.
C20_Witness ==
    /\ fn.op = "annotate" /\ fn.done
    /\ fn.arg.enabled /\ fn.arg.token /\ fn.arg.maxChecks = 60
    /\ Len(fn.out) = 3
    /\ Throwers = {2}
    /\ Positive(fn.out[1])
    /\ fn.arg.graph[3].meeting = "none"
    /\ fn.out[2] = Caught("Invalid time value") @@ fn.arg.events[2]
    /\ fn.out[3] = Negative("no-meeting-match") @@ fn.arg.events[3]

\* The worker has run on the entry: it leaves a reason, and not the one of
\* the entries that were not checked.
WasChecked(ev) == "_tReason" \in DOMAIN ev /\ ev._tReason # "not-checked"

\* C32: when more events have a join URL than maxChecks allows, exactly
\* maxChecks of them are checked, and no event with a join URL and a
\* parseable start that is left unchecked starts after a checked one (a
\* checked one without a parseable start counts as starting before all).
C32_BudgetCoversLatest ==
    (Annotated /\ fn.arg.enabled /\ fn.arg.token) =>
        LET withUrl == {k \in 1..Len(fn.out) : getJoinUrlFromEvent(fn.arg.events[k]) # ""}
            checked == {k \in withUrl : WasChecked(fn.out[k])}
        IN Cardinality(withUrl) > fn.arg.maxChecks =>
              /\ Cardinality(checked) = fn.arg.maxChecks
              /\ \A c \in checked : \A u \in withUrl \ checked :
                    fn.arg.events[u].start # BadTime =>
                        /\ fn.arg.events[c].start # BadTime
                        /\ fn.arg.events[c].start >= fn.arg.events[u].start

\* =====================================================================
\* Properties of the worker of one candidate (SpecResolve)
\* =====================================================================

Returned == fn.op = "worker" /\ fn.done

\* C33: when every query for the meeting, by join URL and by time, was
\* made and answered without a match, the candidate is annotated
\* no-meeting-match; when every query made for the meeting threw, or every
\* query made for its transcripts threw, the candidate is annotated
\* error:<detail>, not no-meeting-match or no-transcripts.
C33_MissIsNotFailure ==
    Returned =>
        /\ (/\ fn.mtg = ""
            /\ fn.asked.url = JoinUrlQueries /\ fn.asked.time = TimeQueries
            /\ fn.threw.url = 0 /\ fn.threw.time = 0)
           => fn.out = Negative("no-meeting-match") @@ fn.arg
        /\ (\/ fn.mtg = "" /\ fn.threw.url = fn.asked.url /\ fn.threw.time = fn.asked.time
            \/ fn.mtg # "" /\ fn.threw.list = TranscriptUrls)
           => /\ ~fn.out._hasTranscript
              /\ fn.out._tReason \notin {"no-meeting-match", "no-transcripts"}

\* =====================================================================
\* Properties of runWithLimit (SpecPool)
\* =====================================================================

\* The items whose worker has been called and has not returned.
InFlight == {pool.runner[r].cur : r \in {q \in DOMAIN pool.runner : pool.runner[q].pc = "await"}}

\* C21: runWithLimit runs max(1, min(limit, number of items)) runners, a
\* runner is in one worker call at a time, so that never more than limit
\* items (one item when limit is below one) are being worked on at once, no
\* item is given to two runners, and it returns when every item is done.
C21_AtMostLimitInFlight ==
    /\ Cardinality(InFlight) <= Max(1, pool.limit)
    /\ Cardinality(InFlight) <= Max(1, Min(pool.limit, pool.items))
    /\ Cardinality(InFlight) =
          Cardinality({r \in DOMAIN pool.runner : pool.runner[r].pc = "await"})
    /\ InFlight \cap pool.out = {}
    /\ pool.pc = "returned" => pool.out = 0..(pool.items - 1)

\* C21 happens: four items and a limit of two; one item is done, two are
\* being worked on and one has not been taken.
C21_Witness ==
    /\ pool.pc = "running"
    /\ pool.items = 4 /\ pool.limit = 2
    /\ Cardinality(pool.out) = 1
    /\ Cardinality(InFlight) = 2
    /\ pool.idx = 3

\* C36: with a limit of one or more, the worker is never called twice for
\* a position; runWithLimit does not return while a call of the worker is
\* pending; when it has returned the worker was called exactly once for
\* each position 0..n-1 and the result at each position is the one of the
\* item at that position; and, every call of the worker returning, it
\* returns.
C36_EachItemOnceAndReturns ==
    /\ [](pool.limit >= 1 =>
             /\ \A i \in DOMAIN pool.calls : pool.calls[i] <= 1
             /\ pool.pc = "returned" =>
                    /\ InFlight = {}
                    /\ DOMAIN pool.calls = 0..(pool.items - 1)
                    /\ \A i \in 0..(pool.items - 1) :
                          pool.calls[i] = 1 /\ pool.res[i] = i)
    /\ <>(pool.pc = "returned")

\* C36 happens: four items and a limit of two, runWithLimit has returned
\* and each item was worked on once.
C36_Witness ==
    /\ pool.pc = "returned"
    /\ pool.items = 4 /\ pool.limit = 2
    /\ \A i \in 0..3 : pool.calls[i] = 1 /\ pool.res[i] = i

====
